---- MODULE Spec2Model ----
(***************************************************************************)
(* A model of the Builder of graphql-query-codegen (src/src/lib.ts): the   *)
(* type registry, the type-reference resolver, the selection renderer, the *)
(* argument validator, the operation renderer and the input-type closure.  *)
(*                                                                         *)
(* Emitted text is modelled as a sequence of tokens whose concatenation is *)
(* the emitted string; "\n" and the indent are tokens of their own.        *)
(* A JavaScript value that may be undefined is a sequence of length 0      *)
(* (undefined) or 1.                                                       *)
(***************************************************************************)
EXTENDS Naturals, Sequences, FiniteSets, TLC

(***************************************************************************)
(* Bounds of the model.                                                    *)
(***************************************************************************)
\* longest initial name list handed to renderDepTypes
MaxNames == 2

TYPENAME_FIELD_NAME == "__typename"

(***************************************************************************)
(* graphql type references (TypeNode).                                     *)
(***************************************************************************)
Named(n) == [kind |-> "NamedType", name |-> n]
ListOf(t) == [kind |-> "ListType", type |-> t]
NonNull(t) == [kind |-> "NonNullType", type |-> t]

(***************************************************************************)
(* graphql definitions (TypeDefinitionNode and its parts).                 *)
(***************************************************************************)
\* InputValueDefinitionNode: a field argument or an input-object field
InputValue(n, t, hasDefault) ==
    [kind |-> "InputValueDefinition", name |-> n, type |-> t,
     defaultValue |-> IF hasDefault THEN <<"default">> ELSE <<>>]

\* FieldDefinitionNode
FieldDef(n, args, t) == [name |-> n, arguments |-> args, type |-> t]

ObjectType(n, fields) == [kind |-> "ObjectTypeDefinition", name |-> n, fields |-> fields]
InterfaceType(n, fields) == [kind |-> "InterfaceTypeDefinition", name |-> n, fields |-> fields]
InputObjectType(n, fields) == [kind |-> "InputObjectTypeDefinition", name |-> n, fields |-> fields]
EnumType(n, values) == [kind |-> "EnumTypeDefinition", name |-> n, values |-> values]
UnionType(n, types) == [kind |-> "UnionTypeDefinition", name |-> n, types |-> types]
ScalarType(n) == [kind |-> "ScalarTypeDefinition", name |-> n]

(***************************************************************************)
(* The model documents the builder is fed: the demo schema of the          *)
(* repository (trimmed to the shapes the renderer distinguishes), and a    *)
(* second document that repeats a name of the first.                       *)
(***************************************************************************)
QueryDef ==
    ObjectType("Query", <<
        FieldDef("getFoo", <<InputValue("a", Named("Int"), FALSE)>>, Named("Foo")),
        FieldDef("getComplex", <<InputValue("input", NonNull(Named("ComplexInput")), FALSE)>>,
                 NonNull(Named("Int"))),
        FieldDef("getMany", <<InputValue("ids", NonNull(ListOf(NonNull(Named("ID")))), FALSE),
                              InputValue("extra", NonNull(Named("Int")), TRUE)>>,
                 ListOf(NonNull(Named("Foo")))),
        FieldDef("somethingElse", <<>>, NonNull(ListOf(Named("Foo")))),
        FieldDef("getOutputUnion", <<>>, Named("OutputUnion")),
        FieldDef("getAllRoots", <<>>, ListOf(NonNull(Named("RootInterface")))),
        FieldDef("getInterface", <<>>, NonNull(Named("RootInterface"))),
        FieldDef("when", <<>>, Named("AWSDateTime")) >>)

MutationDef == ObjectType("Mutation", << FieldDef("foo", <<>>, NonNull(Named("Int"))) >>)

FooDef ==
    ObjectType("Foo", <<
        FieldDef("b", <<>>, Named("String")),
        FieldDef("c", <<>>, Named("String")),
        FieldDef("value", <<>>, NonNull(Named("EddieLovesEnums"))),
        FieldDef("grid", <<>>, ListOf(NonNull(ListOf(Named("Int"))))) >>)

FooInputDef ==
    InputObjectType("FooInput", << InputValue("c", ListOf(Named("ComplexInput")), FALSE) >>)

ComplexInputDef ==
    InputObjectType("ComplexInput", <<
        InputValue("complexValue", NonNull(Named("Int")), TRUE),
        InputValue("recursive", Named("ComplexInput"), FALSE),
        InputValue("foo", Named("FooInput"), FALSE),
        InputValue("something", Named("AWSDateTime123"), FALSE) >>)

EnumDef == EnumType("EddieLovesEnums", <<"WHAT", "ON", "EARTH">>)

OutputADef ==
    ObjectType("OutputA", <<
        FieldDef("commonField", <<>>, Named("String")),
        FieldDef("fieldA", <<>>, Named("String")),
        FieldDef("differs", <<>>, Named("String")) >>)

OutputBDef ==
    ObjectType("OutputB", <<
        FieldDef("commonField", <<>>, Named("String")),
        FieldDef("fieldB", <<InputValue("arg", NonNull(Named("Int")), FALSE)>>, Named("String")),
        FieldDef("differs", <<>>, NonNull(Named("Int"))) >>)

OutputUnionDef == UnionType("OutputUnion", <<"OutputA", "OutputB">>)

RootInterfaceDef ==
    InterfaceType("RootInterface", << FieldDef("name", <<>>, NonNull(Named("String"))) >>)

HahahaSubDef ==
    ObjectType("HahahaSub", << FieldDef("name", <<>>, NonNull(Named("String"))),
                               FieldDef("whatever", <<>>, NonNull(Named("String"))) >>)

\* input Pair { x: Int! y: Pair near: [Point!]! }
PairDef ==
    InputObjectType("Pair", << InputValue("x", NonNull(Named("Int")), FALSE),
                               InputValue("y", Named("Pair"), FALSE),
                               InputValue("near", NonNull(ListOf(NonNull(Named("Point")))), FALSE) >>)

\* an input object with no input-object field
PointDef ==
    InputObjectType("Point", << InputValue("x", NonNull(Named("Int")), FALSE),
                                InputValue("y", Named("Int"), FALSE) >>)

\* an object type that declares a field named like the typename pseudo-field
TaggedDef ==
    ObjectType("Tagged", << FieldDef(TYPENAME_FIELD_NAME, <<>>, NonNull(Named("Int"))),
                            FieldDef("id", <<>>, Named("ID")) >>)

\* a second definition of the name Foo
FooAgainDef == ScalarType("Foo")
\* a legal GraphQL name that an empty JavaScript object already answers to
ConstructorDef == ScalarType("constructor")

DemoDocument ==
    << QueryDef, MutationDef, FooInputDef, ComplexInputDef, FooDef, EnumDef,
       OutputADef, OutputBDef, OutputUnionDef, RootInterfaceDef, HahahaSubDef >>

ExtraDocument == << PairDef, PointDef, TaggedDef, FooAgainDef, ScalarType("AWSDateTime") >>

Documents == {DemoDocument, ExtraDocument}

ModelDefs == {PairDef, FooAgainDef, ConstructorDef}

(***************************************************************************)
(* BuilderOptions and the constructor's defaults.                          *)
(***************************************************************************)
OptionNames ==
    {"allowInvalidShape", "allowMissingFields", "allowMissingArguments",
     "allowUnknownTypes", "exportInputTypes", "fixedTypenameField",
     "allowAdditionalArguments"}

DefaultOptions ==
    [allowInvalidShape |-> FALSE, allowMissingFields |-> FALSE,
     allowMissingArguments |-> FALSE, allowUnknownTypes |-> TRUE,
     exportInputTypes |-> FALSE, fixedTypenameField |-> TRUE,
     allowAdditionalArguments |-> TRUE]

\* new Builder(given): the defaults with the given options flipped
Constructed(flipped) == [n \in OptionNames |-> IF n \in flipped THEN ~DefaultOptions[n] ELSE DefaultOptions[n]]

\* the options that differ from their defaults in the builders constructed:
\* none, each one alone, and the two that --loose turns on
Flips ==
    {{}} \cup {{n} : n \in OptionNames} \cup {{"allowInvalidShape", "allowMissingFields"}}

DefaultScalars ==
    [n \in {"String", "Int", "Float", "Boolean", "ID"} |->
        IF n \in {"Int", "Float"} THEN "number"
        ELSE IF n = "Boolean" THEN "boolean" ELSE "string"]

VARIABLES
    allTypes,       \* #allTypes: registered name -> definition
    scalars,        \* #scalars: scalar name -> TS type
    options,        \* #options
    context,        \* #context: <<>> or <<[variables, inputTypesToRender]>>
    pc,             \* position of the caller in the call in flight
    frame,          \* locals of the call in flight
    result,         \* what the last call returned or threw, until its caller takes it
    trace,          \* what the last step resolved (history, for the properties)
    run             \* locals of runAllBuilder, when it is the caller

vars == <<allTypes, scalars, options, context, pc, frame, result, trace, run>>

(***************************************************************************)
(* Text layout: join and wrap (the render module).                         *)
(***************************************************************************)
NL == "\n"
INDENT == "  "
\* the tokens that are white space only
Blank == {INDENT, NL, " ", ""}

\* the one element of a singleton. The operators below take a value through
\* {f(v) : v \in {e}} so that e is computed once however often f reads v.
The(S) == CHOOSE v \in S : TRUE

RECURSIVE Flatten(_)
\* the concatenation of a sequence of token sequences
Flatten(ss) == The({IF v = <<>> THEN <<>> ELSE Head(v) \o Flatten(Tail(v)) : v \in {ss}})

\* the position of the first "\n" of a text, 0 when it has none
FirstNL(toks) ==
    IF \E i \in 1..Len(toks) : toks[i] = NL
    THEN CHOOSE i \in 1..Len(toks) : toks[i] = NL /\ \A j \in 1..(i - 1) : toks[j] # NL
    ELSE 0

RECURSIVE SplitLines(_)
\* the text v split at its first "\n", at position k
SplitAt(v, k) ==
    IF k = 0 THEN <<v>>
    ELSE <<SubSeq(v, 1, k - 1)>> \o SplitLines(SubSeq(v, k + 1, Len(v)))
\* raw.split('\n'): the lines of a text
SplitLines(toks) == The({The({SplitAt(v, k) : k \in {FirstNL(v)}}) : v \in {toks}})

RECURSIVE TrimEnd(_)
\* String.prototype.trimEnd on one line
TrimEnd(line) ==
    The({IF v = <<>> THEN <<>>
         ELSE IF v[Len(v)] \in Blank THEN TrimEnd(SubSeq(v, 1, Len(v) - 1))
         ELSE v : v \in {line}})

\* join(raw, indent) for a string raw
JoinText(toks, indent) ==
    The({Flatten([i \in 1..Len(lines) |-> TrimEnd(indent \o lines[i]) \o <<NL>>]) :
         lines \in {SplitLines(toks)}})

\* join(raw, indent) for an array raw
Join(lines, indent) ==
    The({JoinText(Flatten([i \in 1..Len(v) |-> v[i] \o <<NL>>]), indent) : v \in {lines}})

\* wrap(raw): a {} block
Wrap(lines) ==
    The({IF \A i \in 1..Len(inner) : inner[i] \in Blank THEN <<"{}">>
         ELSE <<"{", NL>> \o SubSeq(inner, 1, Len(inner) - 1) \o <<"}">> :
         inner \in {Join(lines, <<INDENT>>)}})

\* JSON.stringify of a name
Quote(n) == <<"\"", n, "\"">>

RECURSIVE JoinWith(_, _)
\* Array.prototype.join(sep) on token sequences
JoinWith(ss, sep) ==
    The({IF v = <<>> THEN <<>>
         ELSE IF Len(v) = 1 THEN v[1]
         ELSE v[1] \o <<sep>> \o JoinWith(Tail(v), sep) : v \in {ss}})

(***************************************************************************)
(* Outcomes of the rendering functions: a returned text or a thrown error, *)
(* with the names pushed onto #context.inputTypesToRender on the way and   *)
(* the log of what was resolved.                                           *)
(***************************************************************************)
Ok(out, push, log) == [err |-> <<>>, out |-> out, push |-> push, log |-> log]
Throw(kind, detail, push, log) ==
    [err |-> <<[kind |-> kind, detail |-> detail]>>, out |-> <<>>, push |-> push, log |-> log]
Failed(r) == r.err # <<>>
\* r2 happened after r1
After(r1, r2) == The({[r2 EXCEPT !.push = v.push \o @, !.log = v.log \o @] : v \in {r1}})

\* r with its text between pre and post, an error passing through
Within(pre, r, post) ==
    The({IF Failed(v) THEN v ELSE [v EXCEPT !.out = pre \o @ \o post] : v \in {r}})
\* c, then r unless c threw
Then(c, r) == The({IF Failed(v) THEN v ELSE After(v, r) : v \in {c}})
\* one step of Array.prototype.map: h, then the rest unless h threw
Cons(h, rest) ==
    The({IF Failed(v) THEN v
         ELSE After(v, Within(<<v.out>>, rest, <<>>)) : v \in {h}})
\* one step of selections.map, lines and fragment parts apart
Merged(v, rest) ==
    The({After(v, IF Failed(w) THEN w
                  ELSE [w EXCEPT !.out = [lines |-> v.out.lines \o @.lines,
                                          extra |-> v.out.extra \o @.extra]]) : w \in {rest}})
Merge(h, rest) == The({IF Failed(v) THEN v ELSE Merged(v, rest) : v \in {h}})

\* the names an empty object literal inherits from Object.prototype: the
\* registry and the variables table are plain {} objects, `in` sees these
\* names and a read of one of them gives a value that is not undefined
InheritedKeys ==
    {"constructor", "toString", "valueOf", "hasOwnProperty", "isPrototypeOf",
     "propertyIsEnumerable", "toLocaleString", "__proto__"}

\* what a read of an inherited key gives: a value of Object.prototype, not
\* undefined and without a kind
Inherited(n) == [kind |-> "undefined", name |-> n, fields |-> <<>>]

\* this.#allTypes[name]
Lookup(n) ==
    IF n \in DOMAIN allTypes THEN <<allTypes[n]>>
    ELSE IF n \in InheritedKeys THEN <<Inherited(n)>>
    ELSE <<>>

\* a faulty kind test: every name passes for an input object
KindAlwaysInputObject(n) == "InputObjectTypeDefinition"

\* this.#allTypes[name]?.kind
KindOf(n) == IF n \in DOMAIN allTypes THEN allTypes[n].kind ELSE "undefined"

(***************************************************************************)
(* graphql selections and argument values (the operation's AST).           *)
(***************************************************************************)
\* FieldNode; set is <<>> (no selection set) or <<selections>>
Field(n, args, set) == [kind |-> "Field", name |-> n, arguments |-> args, selectionSet |-> set]
InlineFragment(cond, selections) ==
    [kind |-> "InlineFragment", typeCondition |-> cond, selectionSet |-> <<selections>>]
FragmentSpread(n) == [kind |-> "FragmentSpread", name |-> n]
Argument(n, v) == [name |-> n, value |-> v]
Variable(n) == [kind |-> "Variable", name |-> n]
IntValue == [kind |-> "IntValue"]
ListValue(vs) == [kind |-> "ListValue", values |-> vs]
VariableDefinition(n, t, hasDefault) ==
    [kind |-> "VariableDefinition", name |-> n, type |-> t,
     defaultValue |-> IF hasDefault THEN <<"default">> ELSE <<>>]

\* sel?.selectionSet
HasSet(sel) == sel # <<>> /\ sel[1].selectionSet # <<>>

IsTypename(s) == s.kind = "Field" /\ s.name = TYPENAME_FIELD_NAME

\* a faulty maybeCopyTypenameToInlineFragments: nothing is copied
NeverCopied(all) == all

\* maybeCopyTypenameToInlineFragments
MaybeCopyTypenameToInlineFragments(all) ==
    LET typenameField == \E i \in 1..Len(all) : IsTypename(all[i])
        hasFragment == \E i \in 1..Len(all) : all[i].kind = "InlineFragment"
        copied(s) ==
            IF s.kind # "InlineFragment" THEN s
            ELSE LET inner == s.selectionSet[1]
                 IN  IF \E j \in 1..Len(inner) : IsTypename(inner[j]) THEN s
                     ELSE [s EXCEPT !.selectionSet =
                              << <<Field(TYPENAME_FIELD_NAME, <<>>, <<>>)>> \o inner >>]
    IN  IF ~typenameField \/ ~hasFragment THEN all
        ELSE [i \in 1..Len(all) |-> copied(all[i])]

\* unwrapNonNullType
UnwrapNonNullType(t) == IF t.kind = "NonNullType" THEN t.type ELSE t

(***************************************************************************)
(* The argument validator.                                                 *)
(***************************************************************************)
RECURSIVE CheckTypeCompat(_, _, _)
RECURSIVE CheckListValues(_, _, _)

\* #checkTypeCompat
CheckTypeCompat(req, value, path) ==
    LET requiredType == UnwrapNonNullType(req)
    IN  IF value.kind = "Variable" /\ context = <<>>
        THEN Throw("TypeError", path, <<>>, <<>>)
        ELSE IF /\ value.kind = "Variable"
                /\ value.name \notin DOMAIN context[1].variables \cup InheritedKeys
        THEN Throw("UndeclaredVariable", <<value.name>>, <<>>, <<>>)
        ELSE IF requiredType.kind = "ListType"
        THEN IF value.kind # "ListValue"
             THEN Throw("ArgumentTypeMismatch", path, <<>>, <<>>)
             ELSE CheckListValues(requiredType.type, value.values, path)
        ELSE Ok(<<>>, <<>>, <<>>)

\* the loop over providedValue.values
CheckListValues(req, values, path) ==
    IF values = <<>> THEN Ok(<<>>, <<>>, <<>>)
    ELSE Then(CheckTypeCompat(req, Head(values), path), CheckListValues(req, Tail(values), path))

\* fieldArguments[name]: the position of the declared parameter, 0 when absent
Declared(fieldArguments, n) ==
    IF \E i \in 1..Len(fieldArguments) : fieldArguments[i].name = n
    THEN CHOOSE i \in 1..Len(fieldArguments) : fieldArguments[i].name = n
    ELSE 0

\* delete fieldArguments[name]
Delete(fieldArguments, n) == SelectSeq(fieldArguments, LAMBDA a : a.name # n)

RECURSIVE ConsumeArguments(_, _, _)
\* the loop over the supplied arguments; out is what is left of fieldArguments
ConsumeArguments(fieldArguments, args, path) ==
    IF args = <<>> THEN Ok(fieldArguments, <<>>, <<>>)
    ELSE LET arg == Head(args)
             i == Declared(fieldArguments, arg.name)
         IN  IF i = 0 /\ ~options.allowAdditionalArguments
             THEN Throw("UnexpectedArgument", <<arg.name>>, <<>>, <<>>)
             ELSE IF i = 0
             \* req is undefined here and req.type is read
             THEN Throw("TypeError", <<arg.name>>, <<>>, <<>>)
             ELSE Then(CheckTypeCompat(fieldArguments[i].type, arg.value,
                                       path \o <<".", arg.name>>),
                       ConsumeArguments(Delete(fieldArguments, arg.name), Tail(args), path))

\* a faulty filter: a default value does not excuse a parameter
RequiredThoughDefaulted(fieldArguments) ==
    SelectSeq(fieldArguments, LAMBDA a : a.type.kind = "NonNullType")

\* the parameters still required: no default and not nullable
StillRequired(fieldArguments) ==
    SelectSeq(fieldArguments, LAMBDA a : ~(a.defaultValue # <<>> \/ a.type.kind # "NonNullType"))

Names(items) == [i \in 1..Len(items) |-> items[i].name]

\* the end of #checkFieldArguments, consumed.out being what is left of fieldArguments
Missing(consumed) ==
    The({IF Failed(v) THEN v
         ELSE IF StillRequired(v.out) # <<>> /\ ~options.allowMissingArguments
         THEN Throw("MissingArguments", Names(StillRequired(v.out)), <<>>, <<>>)
         ELSE Ok(<<>>, <<>>, <<>>) : v \in {consumed}})

\* history: one entry per call of #checkFieldArguments
LogArguments(declared, args, path, r) ==
    The({[v EXCEPT !.log = <<[what |-> "args", req |-> declared, args |-> args,
                              path |-> path, err |-> v.err]>>] : v \in {r}})

\* #checkFieldArguments; req is <<>> (undefined) or <<parameters>>
CheckFieldArguments(req, args, path) ==
    LET declared == IF req = <<>> THEN <<>> ELSE req[1]
    IN  LogArguments(declared, args, path,
                     Missing(ConsumeArguments(declared, args, path)))

(***************************************************************************)
(* The type-reference resolver and the selection renderer.                 *)
(***************************************************************************)
RECURSIVE RenderSingleType(_, _, _)
RECURSIVE InternalRenderSingleType(_, _, _)
RECURSIVE RenderInputNames(_, _)
RECURSIVE RenderMany(_, _, _)
RECURSIVE RenderSelections(_, _, _)
RECURSIVE RenderUnionOptions(_, _, _, _)

\* a faulty render: the null union whatever the reference
RenderAlways(nullable, x) == x \o <<" | null">>
\* a faulty render: no null union whatever the reference
RenderNever(nullable, x) == x

\* the `render` closure of renderSingleType: the null union of a nullable reference
Render(nullable, x) == IF nullable THEN x \o <<" | null">> ELSE x

\* a faulty input-object branch: the name alone, and nothing queued
DeferWithoutQueue(n, path) == Ok(<<n>>, <<>>, <<>>)

\* the input-object branch of renderSingleType: the name alone, queued for the closure
DeferInputType(n, path) ==
    IF context = <<>> THEN Throw("TypeError", path, <<>>, <<>>)
    ELSE Ok(<<n>>, <<n>>, <<>>)

\* history: one entry per call of renderSingleType
LogType(type, sel, path, r) ==
    The({[v EXCEPT !.log = Append(@, [what |-> "type", type |-> type, sel |-> sel,
                                      path |-> path, err |-> v.err, out |-> v.out,
                                      push |-> v.push])] : v \in {r}})

\* a faulty renderSingleType: __typename is a missing field like any other
RenderMissingTypename(sel, path) ==
    IF options.allowMissingFields
    THEN Ok(<<"/* can't find path=">> \o path \o <<" */ unknown">>, <<>>, <<>>)
    ELSE Throw("MissingField", path, <<>>, <<>>)

\* renderSingleType when the field was not found (type === undefined)
RenderMissingField(sel, path) ==
    IF sel # <<>> /\ sel[1].name = TYPENAME_FIELD_NAME
    THEN Ok(<<"string">>, <<>>, <<>>)
    ELSE IF options.allowMissingFields
    THEN Ok(<<"/* can't find path=">> \o path \o <<" */ unknown">>, <<>>, <<>>)
    ELSE Throw("MissingField", path, <<>>, <<>>)

\* renderSingleType; type and sel are <<>> when undefined
RenderSingleType(type, sel, path) ==
    IF type = <<>>
    THEN LogType(type, sel, path, RenderMissingField(sel, path))
    ELSE LET nullable == type[1].kind # "NonNullType"
             innerType == IF nullable THEN type[1] ELSE type[1].type
         IN  LogType(type, sel, path,
                Within(<<>>,
                       IF innerType.kind = "ListType"
                       THEN Within(<<"Array<">>,
                                   RenderSingleType(<<innerType.type>>, sel, path \o <<"[]">>),
                                   <<">">>)
                       ELSE IF sel = <<>> /\ KindOf(innerType.name) = "InputObjectTypeDefinition"
                       THEN DeferInputType(innerType.name, path)
                       ELSE InternalRenderSingleType(innerType.name, sel, path),
                       Render(nullable, <<>>)))

\* a faulty #renderSingleInputName: a default value does not make optional
RenderSingleInputNameByTypeOnly(item, path) ==
    Within(<<item.name>> \o (IF item.type.kind # "NonNullType" THEN <<"?">> ELSE <<>>)
           \o <<": ">>,
           RenderSingleType(<<item.type>>, <<>>, path \o <<".", item.name>>),
           <<";">>)

\* #renderSingleInputName, for an input-object field or an operation variable
RenderSingleInputName(item, path) ==
    LET nullable == item.type.kind # "NonNullType"
        optional == nullable \/ item.defaultValue # <<>>
    IN  Within(<<item.name>> \o (IF optional THEN <<"?">> ELSE <<>>) \o <<": ">>,
               RenderSingleType(<<item.type>>, <<>>, path \o <<".", item.name>>),
               <<";">>)

\* items.map(#renderSingleInputName): out is the sequence of lines
RenderInputNames(items, path) ==
    IF items = <<>> THEN Ok(<<>>, <<>>, <<>>)
    ELSE Cons(RenderSingleInputName(Head(items), path), RenderInputNames(Tail(items), path))

\* wrap(lines) of the lines rendered, an error passing through
Wrapped(lines) == The({IF Failed(v) THEN v ELSE [v EXCEPT !.out = Wrap(@)] : v \in {lines}})

\* renderManyInput
RenderManyInput(type, path) ==
    Wrapped(RenderInputNames(type.fields, path))

\* the tail of #internalRenderSingleType: a composite selected as a scalar
RenderInvalidScalar(namedTypeName) ==
    IF ~options.allowInvalidShape THEN Throw("InvalidShape", <<namedTypeName>>, <<>>, <<>>)
    ELSE Ok(<<"/* invalid shape, should be object type=", namedTypeName, " */ any">>, <<>>, <<>>)

\* the tail of #internalRenderSingleType: a scalar selected as an object
RenderInvalidObject(namedTypeName, sel, path) ==
    IF ~options.allowInvalidShape THEN Throw("InvalidShape", <<namedTypeName>>, <<>>, <<>>)
    ELSE Within(<<"/* invalid shape, should be scalar=", namedTypeName, " */ ">>,
                RenderMany(ObjectType("", <<>>), sel[1].selectionSet[1], path),
                <<>>)

\* the switch of #internalRenderSingleType over the definition's kind
RenderByKind(namedTypeDef, namedTypeName, sel, path) ==
    CASE namedTypeDef.kind \in {"ScalarTypeDefinition", "EnumTypeDefinition"} /\ HasSet(sel) ->
            RenderInvalidObject(namedTypeName, sel, path)
      [] namedTypeDef.kind = "ScalarTypeDefinition" /\ ~HasSet(sel) ->
            IF namedTypeName \in DOMAIN scalars
            THEN Ok(<<scalars[namedTypeName]>>, <<>>, <<>>)
            ELSE Ok(<<"/* can't find scalar=", namedTypeName, " */ any">>, <<>>, <<>>)
      [] namedTypeDef.kind = "InputObjectTypeDefinition" ->
            IF sel # <<>> THEN Throw("InputObjectSelected", <<namedTypeName>>, <<>>, <<>>)
            ELSE RenderManyInput(namedTypeDef, path)
      [] namedTypeDef.kind = "ObjectTypeDefinition" /\ sel = <<>> ->
            Throw("MissingSelection", <<namedTypeName>>, <<>>, <<>>)
      [] namedTypeDef.kind = "EnumTypeDefinition" /\ ~HasSet(sel) ->
            IF namedTypeDef.values = <<>>
            THEN Throw("EmptyEnum", <<namedTypeName>>, <<>>, <<>>)
            ELSE Ok(JoinWith([i \in 1..Len(namedTypeDef.values) |->
                                 Quote(namedTypeDef.values[i])], " | "), <<>>, <<>>)
      [] namedTypeDef.kind \in {"ObjectTypeDefinition", "UnionTypeDefinition"} /\ sel # <<>>
         /\ HasSet(sel) ->
            RenderMany(namedTypeDef, sel[1].selectionSet[1], path)
      [] namedTypeDef.kind \in {"ObjectTypeDefinition", "UnionTypeDefinition"} /\ ~HasSet(sel) ->
            RenderInvalidScalar(namedTypeName)
      [] OTHER ->
            Ok(<<"/* unsupported kind=", namedTypeDef.kind, " */ any">>, <<>>, <<>>)

\* the head of #internalRenderSingleType: the definition the name resolves to,
\* <<>> when the unknown name is rendered at once (a thrown error or a marker)
ResolveNamedTypeDef(namedTypeName, sel) ==
    LET found == Lookup(namedTypeName)
    IN  IF found # <<>> THEN found
        ELSE IF ~HasSet(sel) /\ namedTypeName \in DOMAIN scalars
        THEN <<ScalarType(namedTypeName)>>
        ELSE IF ~options.allowUnknownTypes \/ ~HasSet(sel) THEN <<>>
        ELSE <<ObjectType(namedTypeName, <<>>)>>

\* #internalRenderSingleType; sel is <<>> or <<a field or an inline fragment>>
InternalRenderSingleType(namedTypeName, sel, path) ==
    LET namedTypeDef == ResolveNamedTypeDef(namedTypeName, sel)
    IN  IF namedTypeDef # <<>> THEN RenderByKind(namedTypeDef[1], namedTypeName, sel, path)
        ELSE IF ~options.allowUnknownTypes
        THEN Throw("UnknownType", <<namedTypeName>>, <<>>, <<>>)
        ELSE Ok(<<"/* can't find scalar type=">> \o Quote(namedTypeName) \o <<" */ unknown">>,
                <<>>, <<>>)

\* a faulty find: the first field, whatever its name
FindFirstField(type, n) == IF type.fields = <<>> THEN <<>> ELSE <<type.fields[1]>>

\* type.fields.find(name): <<>> or <<the field>>
FindField(type, n) ==
    LET fs == SelectSeq(type.fields, LAMBDA f : f.name = n)
    IN  IF fs = <<>> THEN <<>> ELSE <<fs[1]>>
ArgumentsOf(field) == IF field = <<>> THEN <<>> ELSE <<field[1].arguments>>
TypeOf(field) == IF field = <<>> THEN <<>> ELSE <<field[1].type>>

\* the callback of types.map in the union branch of renderMany: one member's expression
RenderUnionOption(member, sel, path) ==
    LET namedTypeDef == Lookup(member)
        field == FindField(namedTypeDef[1], sel.name)
    IN  IF namedTypeDef = <<>> THEN Throw("TypeError", <<member>>, <<>>, <<>>)
        ELSE IF namedTypeDef[1].kind # "ObjectTypeDefinition"
        THEN Throw("InvalidUnionMember", <<member>>, <<>>, <<>>)
        ELSE Then(CheckFieldArguments(ArgumentsOf(field), sel.arguments, path),
                  RenderSingleType(TypeOf(field), <<sel>>, path \o <<".", sel.name>>))

\* types.map(...): out is the members' expressions
RenderUnionOptions(types, sel, path, name) ==
    IF types = <<>> THEN Ok(<<>>, <<>>, <<>>)
    ELSE Cons(RenderUnionOption(Head(types), sel, path),
              RenderUnionOptions(Tail(types), sel, path, name))

\* a faulty comparison: the first member's expression, the others unread
UnionLineUnchecked(name, possibleUnionOptions) ==
    Ok(<<name, ": ">> \o possibleUnionOptions[1] \o <<";">>, <<>>, <<>>)

\* the comparison of the members' expressions: the field's line
UnionLine(name, possibleUnionOptions) ==
    LET check == IF possibleUnionOptions = <<>> THEN <<"undefined">> ELSE possibleUnionOptions[1]
    IN  IF \E i \in 2..Len(possibleUnionOptions) : check # possibleUnionOptions[i]
        THEN IF ~options.allowUnknownTypes
             THEN Throw("InconsistentUnionShape", <<name>>, <<>>, <<>>)
             ELSE Ok(<<name, ": ", "/* inconsistent subtypes from union */ any", ";">>, <<>>, <<>>)
        ELSE Ok(<<name, ": ">> \o check \o <<";">>, <<>>, <<>>)

\* history: one entry per plain field resolved on a union target
LogUnion(type, sel, opts, r) ==
    The({[v EXCEPT !.log = Append(@, [what |-> "union", target |-> type.name, sel |-> sel,
                                      members |-> IF Failed(opts) THEN <<>> ELSE opts.out,
                                      resolved |-> ~Failed(opts),
                                      err |-> v.err, out |-> v.out])] : v \in {r}})

\* the members' expressions compared
UnionCompared(type, sel, opts) ==
    The({LogUnion(type, sel, v,
                  IF Failed(v) THEN v ELSE After(v, UnionLine(sel.name, v.out))) :
         v \in {opts}})

\* a plain field selected on a union target
RenderUnionField(type, sel, path) ==
    UnionCompared(type, sel, RenderUnionOptions(type.types, sel, path, sel.name))

\* a plain field selected on an object target
RenderObjectField(type, sel, path) ==
    LET field == FindField(type, sel.name)
    IN  Then(CheckFieldArguments(ArgumentsOf(field), sel.arguments, path),
             IF options.fixedTypenameField /\ field = <<>> /\ sel.name = TYPENAME_FIELD_NAME
             THEN Ok(<<sel.name, ": ">> \o Quote(type.name) \o <<";">>, <<>>, <<>>)
             ELSE Within(<<sel.name, ": ">>,
                         RenderSingleType(TypeOf(field), <<sel>>, path \o <<".", sel.name>>),
                         <<";">>))

\* a field's line, returned by the callback of selections.map
AsLine(r) ==
    The({IF Failed(v) THEN v ELSE [v EXCEPT !.out = [lines |-> <<@>>, extra |-> <<>>]] :
         v \in {r}})
\* an inline fragment: pushed onto extraFragmentParts, '' returned
AsFragmentPart(r) ==
    The({IF Failed(v) THEN v ELSE [v EXCEPT !.out = [lines |-> <<>>, extra |-> <<@>>]] :
         v \in {r}})

\* the callback of selections.map: a line, or a fragment part
RenderSelection(type, sel, path) ==
    CASE sel.kind = "Field" ->
            AsLine(IF type.kind = "UnionTypeDefinition"
                   THEN RenderUnionField(type, sel, path)
                   ELSE RenderObjectField(type, sel, path))
      [] sel.kind = "InlineFragment" ->
            AsFragmentPart(InternalRenderSingleType(sel.typeCondition, <<sel>>,
                                                    path \o <<".", sel.typeCondition>>))
      [] OTHER -> Throw("UnsupportedSelection", <<sel.kind>>, <<>>, <<>>)

\* selections.map: out is [lines, extra]
RenderSelections(type, selections, path) ==
    IF selections = <<>> THEN Ok([lines |-> <<>>, extra |-> <<>>], <<>>, <<>>)
    ELSE Merge(RenderSelection(type, Head(selections), path),
               RenderSelections(type, Tail(selections), path))

\* the end of renderMany: the record, and its intersection with the fragments
Combine(type, lines, extra) ==
    LET w == Wrap(IF type.name \notin {"Query", "Mutation", "Subscription"}
                  THEN << <<"//", " ", type.name>> >> \o lines
                  ELSE lines)
    IN  IF extra # <<>>
        THEN <<"(">> \o w \o <<" & (">> \o JoinWith(extra, " | ") \o <<"))">>
        ELSE w

Combined(type, m) ==
    The({IF Failed(v) THEN v ELSE [v EXCEPT !.out = Combine(type, @.lines, @.extra)] :
         v \in {m}})

\* history: one entry per completed call of renderMany, after those of the
\* calls it made
LogMany(type, set, path, r) ==
    The({[v EXCEPT !.log = Append(@, [what |-> "many", type |-> type, set |-> set,
                                      path |-> path, err |-> v.err, out |-> v.out])] :
         v \in {r}})

\* renderMany
RenderMany(type, set, path) ==
    LogMany(type, set, path,
            Combined(type, RenderSelections(type,
                                            IF options.fixedTypenameField
                                            THEN MaybeCopyTypenameToInlineFragments(set)
                                            ELSE set,
                                            path)))

(***************************************************************************)
(* The operations the builder is asked to render.                          *)
(***************************************************************************)
\* OperationDefinitionNode; name is <<>> for an anonymous operation
Operation(kind, name, variableDefinitions, selectionSet) ==
    [kind |-> "OperationDefinition", operation |-> kind, name |-> name,
     variableDefinitions |-> variableDefinitions, selectionSet |-> selectionSet]

\* FragmentDefinitionNode: a definition of a query document that is no operation
FragmentDefinition(name, typeCondition, selectionSet) ==
    [kind |-> "FragmentDefinition", name |-> name, typeCondition |-> typeCondition,
     selectionSet |-> selectionSet]

Leaf(n) == Field(n, <<>>, <<>>)

\* selection sets over the root type Query
QuerySelections ==
    { \* the README's example, and the whole of Foo
      << Field("getFoo", <<Argument("a", IntValue)>>, << <<Leaf("b")>> >>) >>,
      << Field("getFoo", <<>>, << <<Leaf("b"), Leaf("c"), Leaf("value"), Leaf("grid")>> >>) >>,
      \* arguments: missing, additional, list-shaped
      << Leaf("getComplex") >>,
      << Field("getComplex", <<Argument("input", Variable("input"))>>, <<>>) >>,
      << Field("getFoo", <<Argument("zzz", IntValue), Argument("a", IntValue)>>,
               << <<Leaf("b")>> >>) >>,
      << Field("getMany", <<Argument("ids", ListValue(<<IntValue, Variable("id")>>))>>,
               << <<Leaf("b")>> >>) >>,
      << Field("getMany", <<Argument("ids", Variable("ids"))>>, << <<Leaf("b")>> >>) >>,
      << Field("getMany", <<>>, << <<Leaf("b")>> >>) >>,
      \* variables no operation declares, one named like a key every object has
      << Field("getFoo", <<Argument("a", Variable("constructor"))>>, << <<Leaf("b")>> >>) >>,
      << Field("getFoo", <<Argument("a", Variable("nope"))>>, << <<Leaf("b")>> >>) >>,
      \* lists, shapes, unknown and missing things
      << Field("somethingElse", <<>>, << <<Leaf("value"), Leaf("__typename")>> >>) >>,
      << Leaf("somethingElse"), Leaf("__typename") >>,
      << Leaf("when"), Leaf("nope") >>,
      << Field("when", <<>>, << <<Leaf("x")>> >>) >>,
      << FragmentSpread("F") >>,
      \* unions
      << Field("getOutputUnion", <<>>, << <<Leaf("commonField"), Leaf("__typename")>> >>) >>,
      << Field("getOutputUnion", <<>>, << <<Leaf("differs")>> >>) >>,
      << Field("getOutputUnion", <<>>, << <<Leaf("fieldA")>> >>) >>,
      << Field("getOutputUnion", <<>>,
               << <<Leaf("__typename"),
                    InlineFragment("OutputA", <<Leaf("fieldA")>>),
                    InlineFragment("OutputB", <<Leaf("__typename"),
                        Field("fieldB", <<Argument("arg", IntValue)>>, <<>>)>>)>> >>) >>,
      \* interfaces
      << Field("getInterface", <<>>,
               << <<Leaf("__typename"), InlineFragment("HahahaSub", <<Leaf("whatever")>>)>> >>) >>,
      << Field("getAllRoots", <<>>, << <<Leaf("name")>> >>) >>,
      << Field("getFoo", <<>>, << <<InlineFragment("FooInput", <<Leaf("c")>>)>> >>) >>,
      \* the typename pseudo-field where a type declares a field of that name
      << Field("getFoo", <<>>,
               << <<InlineFragment("Tagged", <<Leaf("id"), Leaf("__typename")>>)>> >>) >> }

\* variable definitions
VariableLists ==
    { << VariableDefinition("p", Named("Pair"), FALSE),
         VariableDefinition("q", NonNull(ListOf(NonNull(Named("Pair")))), TRUE),
         VariableDefinition("r", NonNull(ListOf(Named("FooInput"))), FALSE) >>,
      << VariableDefinition("e", ListOf(ListOf(NonNull(Named("EddieLovesEnums")))), FALSE),
         VariableDefinition("w", NonNull(Named("AWSDateTime")), FALSE),
         VariableDefinition("c", ListOf(NonNull(ListOf(Named("ComplexInput")))), FALSE) >>,
      << VariableDefinition("p", NonNull(Named("Point")), FALSE),
         VariableDefinition("f", Named("Foo"), FALSE) >>,
      << VariableDefinition("v", NonNull(Named("constructor")), FALSE) >> }

InputVariables == << VariableDefinition("input", NonNull(Named("ComplexInput")), FALSE) >>
IdVariables ==
    << VariableDefinition("id", NonNull(Named("ID")), FALSE),
       VariableDefinition("ids", ListOf(NonNull(Named("ID"))), FALSE) >>

Operations ==
    { Operation("query", <<"GetFoo">>, <<>>, s) : s \in QuerySelections }
    \cup { Operation("query", <<"GetFoo">>, v,
                     << Field("getFoo", <<Argument("a", IntValue)>>, << <<Leaf("b")>> >>) >>) :
              v \in VariableLists }
    \cup { Operation("query", <<"GetFoo">>, InputVariables,
                     << Field("getComplex", <<Argument("input", Variable("input"))>>, <<>>) >>),
           Operation("query", <<"GetFoo">>, IdVariables,
                     << Field("getMany", <<Argument("ids", ListValue(<<IntValue, Variable("id")>>))>>,
                              << <<Leaf("b")>> >>) >>),
           Operation("query", <<"GetFoo">>, IdVariables,
                     << Field("getMany", <<Argument("ids", Variable("ids"))>>,
                              << <<Leaf("b")>> >>) >>),
           Operation("mutation", <<"SetFoo">>, <<>>, << Leaf("foo") >>),
           Operation("subscription", <<"OnFoo">>, <<>>, << Leaf("foo") >>),
           Operation("query", <<>>, <<>>, << Leaf("when") >>) }

\* opName.substring(0, 1).toLowerCase() + opName.substring(1)
VarName(opName) ==
    CASE opName = "GetFoo" -> "getFoo"
      [] opName = "SetFoo" -> "setFoo"
      [] opName = "OnFoo" -> "onFoo"
      [] OTHER -> opName

\* the names handed to renderDepTypes
InputNames == {"ComplexInput", "Pair", "Point", "Foo"}

RECURSIVE SeqsUpTo(_, _)
\* the sequences over S of length at most n
SeqsUpTo(S, n) ==
    IF n = 0 THEN {<<>>}
    ELSE LET shorter == SeqsUpTo(S, n - 1)
         IN  shorter \cup {Append(q, x) : q \in shorter, x \in S}

\* the scalars the caller registers
ScalarAdds == { <<"AWSDateTime", "string">> }

(***************************************************************************)
(* The builder's state after construction.                                 *)
(***************************************************************************)
NoFrame ==
    [op |-> <<>>, base |-> <<>>, names |-> <<>>, parts |-> <<>>,
     seenInputTypes |-> <<>>, enqueued |-> <<>>, defs |-> <<>>]

NoResult == [call |-> "none", status |-> "none", code |-> <<>>, deps |-> <<>>, err |-> <<>>,
             op |-> <<>>, names |-> <<>>, defs |-> <<>>]

Returned(call, f, code, deps) ==
    [call |-> call, status |-> "returned", code |-> code, deps |-> deps, err |-> <<>>,
     op |-> f.op, names |-> f.names, defs |-> f.defs]

Threw(call, f, err) ==
    [call |-> call, status |-> "threw", code |-> <<>>, deps |-> <<>>, err |-> err,
     op |-> f.op, names |-> f.names, defs |-> f.defs]

\* runAllBuilder not called
NoRun ==
    [phase |-> "none", args |-> <<>>, queue |-> <<>>, parts |-> <<>>, allDeps |-> <<>>,
     calls |-> <<>>, out |-> <<>>, err |-> <<>>]

Init ==
    /\ allTypes = <<>>
    /\ scalars = DefaultScalars
    /\ options \in {Constructed(f) : f \in Flips}
    /\ context = <<>>
    /\ pc = "idle"
    /\ frame = NoFrame
    /\ result = NoResult
    /\ trace = <<>>
    /\ run = NoRun

(***************************************************************************)
(* The type registry.                                                      *)
(***************************************************************************)
\* a faulty test: nothing is ever present
HasNot(types, n) == FALSE

\* def.name.value in this.#allTypes
Has(types, n) == n \in DOMAIN types \cup InheritedKeys

\* the registry with def registered under its name
Registered(types, def) == (def.name :> def) @@ types

\* the call's argument, kept for its result
Given(defs) == [NoFrame EXCEPT !.defs = defs]

\* addModelType
AddModelType(def) ==
    /\ pc = "idle"
    /\ IF Has(allTypes, def.name)
       THEN /\ result' = Threw("addModelType", Given(<<def>>),
                               <<[kind |-> "DuplicateType", detail |-> <<def.name>>]>>)
            /\ UNCHANGED allTypes
       ELSE /\ allTypes' = Registered(allTypes, def)
            /\ result' = Returned("addModelType", Given(<<def>>), <<>>, <<>>)
    /\ pc' = "returned"
    /\ UNCHANGED <<scalars, options, context, frame, trace, run>>

RECURSIVE AddAll(_, _)
\* the loop of addAllDocument: the registry it leaves, and whether it threw
AddAll(types, defs) ==
    IF defs = <<>> THEN [types |-> types, err |-> <<>>]
    ELSE IF Has(types, Head(defs).name)
    THEN [types |-> types, err |-> <<[kind |-> "DuplicateType", detail |-> <<Head(defs).name>>]>>]
    ELSE AddAll(Registered(types, Head(defs)), Tail(defs))

\* addAllDocument
AddAllDocument(doc) ==
    /\ pc = "idle"
    /\ LET r == AddAll(allTypes, doc)
       IN  /\ allTypes' = r.types
           /\ result' = IF r.err = <<>> THEN Returned("addAllDocument", Given(doc), <<>>, <<>>)
                        ELSE Threw("addAllDocument", Given(doc), r.err)
    /\ pc' = "returned"
    /\ UNCHANGED <<scalars, options, context, frame, trace, run>>

\* addScalar
AddScalar(name, tsType) ==
    /\ pc = "idle"
    /\ scalars' = (name :> tsType) @@ scalars
    /\ result' = Returned("addScalar", NoFrame, <<>>, <<>>)
    /\ pc' = "returned"
    /\ UNCHANGED <<allTypes, options, context, frame, trace, run>>

\* the caller takes what the call returned or threw
TakeResult ==
    /\ pc = "returned"
    /\ run.phase = "none"
    /\ pc' = "idle"
    /\ result' = NoResult
    /\ frame' = NoFrame
    /\ trace' = <<>>
    /\ UNCHANGED <<allTypes, scalars, options, context, run>>

(***************************************************************************)
(* The operation renderer: renderOp, in the three stretches between which  *)
(* it can throw.                                                           *)
(***************************************************************************)
\* getBaseFor
GetBaseFor(operation) ==
    LET key == IF operation = "query" THEN "Query" ELSE "Mutation"
        x == Lookup(key)
    IN  IF operation \notin {"query", "mutation"}
        THEN [err |-> <<[kind |-> "UnsupportedOperation", detail |-> <<operation>>]>>, base |-> <<>>]
        ELSE IF x = <<>> THEN [err |-> <<>>, base |-> <<ObjectType(key, <<>>)>>]
        ELSE IF x[1].kind # "ObjectTypeDefinition"
        THEN [err |-> <<[kind |-> "UnexpectedRootKind", detail |-> <<key>>]>>, base |-> <<>>]
        ELSE [err |-> <<>>, base |-> x]

\* the variables table of renderOp: name -> definition, a later definition winning
VariablesOf(op) ==
    LET defs == op.variableDefinitions
        last(n) == CHOOSE i \in 1..Len(defs) :
                      defs[i].name = n /\ \A j \in (i + 1)..Len(defs) : defs[j].name # n
    IN  [n \in {defs[i].name : i \in 1..Len(defs)} |-> defs[last(n)]]

\* this.#context = {variables, inputTypesToRender}
NewContext(variables, inputTypesToRender) ==
    <<[variables |-> variables, inputTypesToRender |-> inputTypesToRender]>>

\* a faulty push: the names queued by a resolution are dropped
PushedNothing(ctx, names) == ctx

\* inputTypesToRender.push(...) for every name a resolution queued
Pushed(ctx, names) ==
    IF ctx = <<>> THEN ctx
    ELSE <<[ctx[1] EXCEPT !.inputTypesToRender = @ \o names]>>

\* a faulty finally block: #context is left as it is
FinallySkipped(ctx) == ctx

\* the finally block of renderOp
FinallyOfRenderOp(ctx) == <<>>

\* the finally block of renderDepTypes
FinallyOfRenderDepTypes(ctx) == <<>>

\* renderOp up to the assignment of #context
RenderOpEnter(op) ==
    /\ trace' = <<>>
    /\ LET f == [NoFrame EXCEPT !.op = <<op>>]
           b == GetBaseFor(op.operation)
       IN  IF op.name = <<>>
           THEN /\ result' = Threw("renderOp", f,
                                   <<[kind |-> "UnnamedOperation", detail |-> <<op.operation>>]>>)
                /\ frame' = f
                /\ pc' = "returned"
                /\ UNCHANGED context
           ELSE IF b.err # <<>>
           THEN /\ result' = Threw("renderOp", f, b.err)
                /\ frame' = f
                /\ pc' = "returned"
                /\ UNCHANGED context
           ELSE /\ context' = NewContext(VariablesOf(op), <<>>)
                /\ frame' = [f EXCEPT !.base = b.base,
                                      !.parts = << <<"export const ", VarName(op.name[1]), " = ",
                                                     "JSON.stringify(print(op))", ";">>, <<>> >>]
                /\ pc' = "renderOp.result"
                /\ UNCHANGED result
    /\ UNCHANGED <<allTypes, scalars, options>>

\* renderOp called on a builder at rest
RenderOpCall(op) ==
    /\ pc = "idle"
    /\ RenderOpEnter(op)
    /\ UNCHANGED run

\* renderOp: the result type
RenderOpResult ==
    /\ pc = "renderOp.result"
    /\ LET op == frame.op[1]
           base == frame.base[1]
           r == RenderMany(base, op.selectionSet, op.name)
       IN  /\ trace' = r.log
           /\ IF Failed(r)
              THEN /\ context' = FinallyOfRenderOp(Pushed(context, r.push))
                   /\ result' = Threw("renderOp", frame, r.err)
                   /\ pc' = "returned"
                   /\ UNCHANGED frame
              ELSE /\ context' = Pushed(context, r.push)
                   /\ frame' = [frame EXCEPT !.parts = @ \o
                                   << <<"export type ", op.name[1], base.name, " = ">> \o r.out,
                                      <<>> >>]
                   /\ pc' = "renderOp.variables"
                   /\ UNCHANGED result
    /\ UNCHANGED <<allTypes, scalars, options, run>>

\* renderOp: the variables type, and the return
RenderOpVariables ==
    /\ pc = "renderOp.variables"
    /\ LET op == frame.op[1]
           base == frame.base[1]
           r == RenderInputNames(op.variableDefinitions, op.name)
           after == Pushed(context, r.push)
       IN  /\ trace' = r.log
           /\ context' = FinallyOfRenderOp(after)
           /\ pc' = "returned"
           /\ IF Failed(r)
              THEN /\ result' = Threw("renderOp", frame, r.err)
                   /\ UNCHANGED frame
              ELSE /\ frame' = [frame EXCEPT !.parts = @ \o
                                   << <<"export type ", op.name[1], base.name, "Variables", " = ">>
                                      \o Wrap(r.out) \o <<";">> >>]
                   /\ result' = Returned("renderOp", frame, Join(frame'.parts, <<>>),
                                         after[1].inputTypesToRender)
    /\ UNCHANGED <<allTypes, scalars, options, run>>

(***************************************************************************)
(* The input-type closure: renderDepTypes, one pass of its loop at a time. *)
(***************************************************************************)
\* a faulty seenInputTypes.has: nothing is ever taken as seen
NeverSeen(seen, next) == FALSE

\* seenInputTypes.has(next)
SeenHas(seen, next) == \E i \in 1..Len(seen) : seen[i] = next

\* seenInputTypes.add(next): a Set keeps insertion order
SeenAdd(seen, next) == IF SeenHas(seen, next) THEN seen ELSE Append(seen, next)

\* a faulty shift: the name is read and left on the queue
NotShifted(queue) == queue

\* inputTypesToRender.shift(): what is left of the queue
Shift(queue) == Tail(queue)

\* the declaration of one input type
Declaration(next, inner) ==
    <<IF options.exportInputTypes THEN "export " ELSE "", "type ", next, " = ">>
    \o inner \o <<";">>

\* renderDepTypes up to the loop
RenderDepTypesEnter(names) ==
    /\ context' = NewContext(<<>>, names)
    /\ frame' = [NoFrame EXCEPT !.names = names, !.enqueued = names]
    /\ pc' = "renderDepTypes.loop"
    /\ trace' = <<>>
    /\ UNCHANGED <<allTypes, scalars, options, result>>

\* renderDepTypes called on a builder at rest
RenderDepTypesCall(names) ==
    /\ pc = "idle"
    /\ RenderDepTypesEnter(names)
    /\ UNCHANGED run

\* one pass of the loop with a name on the queue
RenderDepTypesStep ==
    /\ pc = "renderDepTypes.loop"
    /\ context[1].inputTypesToRender # <<>>
    /\ LET queue == context[1].inputTypesToRender
           next == Head(queue)
           shifted == <<[context[1] EXCEPT !.inputTypesToRender = Shift(queue)]>>
           t == Lookup(next)
           seen == SeenAdd(frame.seenInputTypes, next)
           inner == RenderManyInput(t[1], <<>>)
           throw(err, ctx) ==
               /\ context' = FinallyOfRenderDepTypes(ctx)
               /\ result' = Threw("renderDepTypes", frame, err)
               /\ frame' = [frame EXCEPT !.seenInputTypes = seen]
               /\ pc' = "returned"
       IN  IF SeenHas(frame.seenInputTypes, next)
           THEN /\ context' = shifted
                /\ trace' = <<>>
                /\ UNCHANGED <<frame, result, pc>>
           ELSE IF t = <<>>
           THEN /\ throw(<<[kind |-> "UnknownInputType", detail |-> <<next>>]>>, shifted)
                /\ trace' = <<>>
           ELSE IF t[1].kind # "InputObjectTypeDefinition"
           THEN /\ throw(<<[kind |-> "WrongKind", detail |-> <<next>>]>>, shifted)
                /\ trace' = <<>>
           ELSE IF Failed(inner)
           THEN /\ throw(inner.err, Pushed(shifted, inner.push))
                /\ trace' = inner.log
           ELSE /\ context' = Pushed(shifted, inner.push)
                /\ frame' = [frame EXCEPT !.seenInputTypes = seen,
                                          !.parts = @ \o <<Declaration(next, inner.out), <<>> >>,
                                          !.enqueued = @ \o inner.push]
                /\ trace' = inner.log
                /\ UNCHANGED <<result, pc>>
    /\ UNCHANGED <<allTypes, scalars, options, run>>

\* the loop's exit on an empty queue, and the return
RenderDepTypesReturn ==
    /\ pc = "renderDepTypes.loop"
    /\ context[1].inputTypesToRender = <<>>
    /\ LET parts == IF frame.parts = <<>> THEN <<>>
                    ELSE SubSeq(frame.parts, 1, Len(frame.parts) - 1)
       IN  /\ frame' = [frame EXCEPT !.parts = parts]
           /\ result' = Returned("renderDepTypes", frame, Join(parts, <<>>), frame.seenInputTypes)
    /\ context' = FinallyOfRenderDepTypes(context)
    /\ pc' = "returned"
    /\ trace' = <<>>
    /\ UNCHANGED <<allTypes, scalars, options, run>>

(***************************************************************************)
(* runAllBuilder: the whole generator, the caller of a builder of its own, *)
(* from one call of the builder to the next.                               *)
(***************************************************************************)
\* the operations of the query documents
GetComplexOp ==
    Operation("query", <<"GetFoo">>, InputVariables,
              << Field("getComplex", <<Argument("input", Variable("input"))>>, <<>>) >>)
SetFooOp ==
    Operation("mutation", <<"SetFoo">>,
              << VariableDefinition("input", Named("ComplexInput"), FALSE),
                 VariableDefinition("p", NonNull(Named("Point")), FALSE),
                 VariableDefinition("more", ListOf(Named("FooInput")), FALSE) >>,
              << Leaf("foo") >>)
GetFooOp ==
    Operation("query", <<"GetFoo">>, <<>>,
              << Field("getFoo", <<Argument("a", IntValue)>>, << <<Leaf("b")>> >>) >>)
UnnamedOp == Operation("query", <<>>, <<>>, << Leaf("when") >>)
FooFragment == FragmentDefinition("F", "Foo", <<Leaf("b")>>)

\* args.query: the query files, each the definitions of its document
RunQueries ==
    { << <<GetComplexOp, GetFooOp>>, <<SetFooOp>> >>,
      << <<FooFragment, GetComplexOp, GetFooOp, GetComplexOp>> >>,
      << <<GetFooOp, SetFooOp>> >>,
      << <<>> >>,
      << <<GetFooOp, UnnamedOp, GetComplexOp>> >> }

\* args.model: the model files
RunModels == { <<DemoDocument>>, <<DemoDocument, ExtraDocument>>, <<ExtraDocument, ExtraDocument>> }

\* Object.entries(args.scalars ?? {})
RunScalars == { <<>> } \cup { <<s>> : s \in ScalarAdds }

\* the arguments of runAllBuilder; args.options are the options the builder
\* was constructed with
RunArgs == [model : RunModels, scalars : RunScalars, query : RunQueries]

RECURSIVE AddAllDocuments(_, _)
\* the loop over [args.model].flat(): the registry it leaves, and whether it threw
AddAllDocuments(types, docs) ==
    IF docs = <<>> THEN [types |-> types, err |-> <<>>]
    ELSE LET r == AddAll(types, Head(docs))
         IN  IF r.err # <<>> THEN r ELSE AddAllDocuments(r.types, Tail(docs))

RECURSIVE AddScalars(_, _)
\* the loop over the entries of args.scalars
AddScalars(sc, entries) ==
    IF entries = <<>> THEN sc
    ELSE AddScalars((Head(entries)[1] :> Head(entries)[2]) @@ sc, Tail(entries))

\* a faulty accumulation: the names of the operation just rendered only
AllDepsReplaced(allDeps, deps) == deps

\* allDeps.push(...deps)
AllDepsPushed(allDeps, deps) == allDeps \o deps

\* history: the call of the builder that just ended, as the builder saw it
Called == [call |-> result.call, op |-> result.op, names |-> result.names,
           status |-> result.status, code |-> result.code, deps |-> result.deps]

\* runAllBuilder up to the loop over the query files
RunAllBuilderCall(args) ==
    /\ pc = "idle"
    /\ run.phase = "none"
    /\ allTypes = <<>>
    /\ scalars = DefaultScalars
    /\ LET r == AddAllDocuments(allTypes, args.model)
       IN  /\ allTypes' = r.types
           /\ IF r.err # <<>>
              THEN /\ run' = [NoRun EXCEPT !.phase = "threw", !.args = <<args>>, !.err = r.err]
                   /\ pc' = "finished"
                   /\ UNCHANGED scalars
              ELSE /\ scalars' = AddScalars(scalars, args.scalars)
                   /\ run' = [NoRun EXCEPT !.phase = "ops", !.args = <<args>>,
                                           !.queue = Flatten(args.query)]
                   /\ pc' = "runAllBuilder"
    /\ UNCHANGED <<options, context, frame, result, trace>>

\* the callback of queries.definitions.forEach, up to where renderOp has
\* assigned #context
RunAllBuilderOp ==
    /\ pc = "runAllBuilder"
    /\ run.phase = "ops"
    /\ run.queue # <<>>
    /\ run' = [run EXCEPT !.queue = Tail(@)]
    /\ IF Head(run.queue).kind # "OperationDefinition"
       THEN UNCHANGED <<allTypes, scalars, options, context, pc, frame, result, trace>>
       ELSE RenderOpEnter(Head(run.queue))

\* the rest of the callback, renderOp having returned or thrown
RunAllBuilderTakeOp ==
    /\ pc = "returned"
    /\ run.phase = "ops"
    /\ IF result.status = "threw"
       THEN /\ run' = [run EXCEPT !.phase = "threw", !.err = result.err,
                                  !.calls = Append(@, Called)]
            /\ pc' = "finished"
       ELSE /\ run' = [run EXCEPT !.allDeps = AllDepsPushed(@, result.deps),
                                  !.parts = Append(@, result.code),
                                  !.calls = Append(@, Called)]
            /\ pc' = "runAllBuilder"
    /\ result' = NoResult
    /\ frame' = NoFrame
    /\ trace' = <<>>
    /\ UNCHANGED <<allTypes, scalars, options, context>>

\* b.renderDepTypes(allDeps), up to its loop
RunAllBuilderDeps ==
    /\ pc = "runAllBuilder"
    /\ run.phase = "ops"
    /\ run.queue = <<>>
    /\ run' = [run EXCEPT !.phase = "deps"]
    /\ RenderDepTypesEnter(run.allDeps)

\* parts.push(code) and the return of parts.join('')
RunAllBuilderReturn ==
    /\ pc = "returned"
    /\ run.phase = "deps"
    /\ IF result.status = "threw"
       THEN run' = [run EXCEPT !.phase = "threw", !.err = result.err,
                               !.calls = Append(@, Called)]
       ELSE run' = [run EXCEPT !.phase = "returned",
                               !.parts = Append(@, result.code),
                               !.out = Flatten(Append(run.parts, result.code)),
                               !.calls = Append(@, Called)]
    /\ pc' = "finished"
    /\ result' = NoResult
    /\ frame' = NoFrame
    /\ trace' = <<>>
    /\ UNCHANGED <<allTypes, scalars, options, context>>

(***************************************************************************)
(* The specification.                                                      *)
(***************************************************************************)
Next ==
    \/ \E def \in ModelDefs : AddModelType(def)
    \/ \E doc \in Documents : AddAllDocument(doc)
    \/ \E s \in ScalarAdds : AddScalar(s[1], s[2])
    \/ \E op \in Operations : RenderOpCall(op)
    \/ RenderOpResult
    \/ RenderOpVariables
    \/ \E names \in SeqsUpTo(InputNames, MaxNames) : RenderDepTypesCall(names)
    \/ RenderDepTypesStep
    \/ RenderDepTypesReturn
    \/ TakeResult
    \/ \E args \in RunArgs : RunAllBuilderCall(args)
    \/ RunAllBuilderOp
    \/ RunAllBuilderTakeOp
    \/ RunAllBuilderDeps
    \/ RunAllBuilderReturn

Spec == Init /\ [][Next]_vars

\* renderDepTypes runs to its end once called
FairSpec ==
    /\ Init /\ [][Next]_vars
    /\ WF_vars(RenderDepTypesStep)
    /\ WF_vars(RenderDepTypesReturn)

(***************************************************************************)
(* What the properties read.                                               *)
(***************************************************************************)
\* the entries of the last step's history of a kind
Entries(what) == {i \in 1..Len(trace) : trace[i].what = what}
\* the calls of renderSingleType that returned, for a reference that exists
Resolved == {i \in Entries("type") : trace[i].err = <<>> /\ trace[i].type # <<>>}

RECURSIVE BaseName(_)
\* the named type under the List/NonNull wrappers of a reference
BaseName(t) == IF t.kind = "NamedType" THEN t.name ELSE BaseName(t.type)

RECURSIVE FirstSeen(_)
\* a sequence without its repetitions, each element where it first occurs
FirstSeen(q) ==
    IF q = <<>> THEN <<>>
    ELSE <<Head(q)>> \o FirstSeen(SelectSeq(Tail(q), LAMBDA x : x # Head(q)))

\* the names a closure text declares, in the order of the text
DeclaredNames(code) ==
    LET at == SelectSeq([i \in 1..Len(code) |-> i], LAMBDA i : code[i] = "type ")
    IN  [k \in 1..Len(at) |-> code[at[k] + 1]]

ClosureReturned == pc = "returned" /\ result.call = "renderDepTypes" /\ result.status = "returned"

(***************************************************************************)
(* C1: a renderDepTypes call that returns has emitted exactly one           *)
(* `type <Name> = ...` declaration per distinct name it processed, in the   *)
(* order in which the names first entered the worklist, and returns the     *)
(* same names, each once, in that order.                                    *)
(***************************************************************************)
C1_OneDeclarationPerName ==
    ClosureReturned =>
        /\ result.deps = FirstSeen(frame.enqueued)
        /\ DeclaredNames(result.code) = result.deps
        /\ \A i, j \in 1..Len(result.deps) : result.deps[i] = result.deps[j] => i = j

\* a closure over a repeated name whose type refers to itself and to another
C1_Witness ==
    /\ ClosureReturned
    /\ result.names = <<"ComplexInput", "ComplexInput">>
    /\ result.deps = <<"ComplexInput", "FooInput">>

(***************************************************************************)
(* C2: renderDepTypes terminates: once its loop is entered the call         *)
(* returns or throws, whatever the registry and the names, recursive input  *)
(* types included.                                                          *)
(***************************************************************************)
C2_ClosureTerminates == (pc = "renderDepTypes.loop") ~> (pc = "returned")

\* the loop meets a name that an expansion queued and that was already expanded
C2_Witness ==
    /\ pc = "renderDepTypes.loop"
    /\ context[1].inputTypesToRender # <<>>
    /\ SeenHas(frame.seenInputTypes, Head(context[1].inputTypesToRender))
    /\ Len(frame.enqueued) > Len(frame.names)

\* whether a reference carries no NonNull wrapper
Nullable(t) == t.kind # "NonNullType"
\* how many tokens of a text are in S
Count(out, S) == Cardinality({k \in 1..Len(out) : out[k] \in S})
\* how many brackets are open at position k of a text
Depth(out, k) ==
    Count(SubSeq(out, 1, k - 1), {"Array<", "{", "(", " & ("})
    - Count(SubSeq(out, 1, k - 1), {">", "}"}) - 2 * Count(SubSeq(out, 1, k - 1), {"))"})
\* the null unions of a text that are inside no bracket
TopLevelNulls(out) ==
    Cardinality({k \in 1..Len(out) : out[k] = " | null" /\ Depth(out, k) = 0})
\* whether q is the end of s
IsSuffix(q, s) == Len(q) <= Len(s) /\ SubSeq(s, Len(s) - Len(q) + 1, Len(s)) = q

\* the resolutions in an input position of a reference to a registered input object
InputRefs ==
    {i \in Entries("type") :
        /\ trace[i].type # <<>> /\ trace[i].sel = <<>>
        /\ KindOf(BaseName(trace[i].type[1])) = "InputObjectTypeDefinition"}
\* the names they queued, in the order of the resolutions
QueuedBy(log) ==
    LET at == SelectSeq([i \in 1..Len(log) |-> i],
                        LAMBDA i : i \in InputRefs
                                   /\ UnwrapNonNullType(log[i].type[1]).kind = "NamedType")
    IN  [k \in 1..Len(at) |-> BaseName(log[at[k]].type[1])]

(***************************************************************************)
(* C3: a reference resolved in an input position (no selection) that names  *)
(* a registered input object, under any List/NonNull wrappers, is rendered  *)
(* as the type's name alone, never its field list, and the name is appended *)
(* to the pending queue of the render context.                              *)
(***************************************************************************)
C3_InputTypesDeferred ==
    /\ \A i \in InputRefs :
          LET e == trace[i]
              n == BaseName(e.type[1])
          IN  /\ e.err = <<>>
              /\ Count(e.out, {n}) = 1
              /\ {e.out[k] : k \in 1..Len(e.out)} \subseteq {n, "Array<", ">", " | null"}
              /\ e.push = <<n>>
    /\ context # <<>> =>
          IsSuffix(QueuedBy(trace), context[1].inputTypesToRender)
    /\ pc = "returned" /\ result.call = "renderOp" /\ result.status = "returned" =>
          result.deps = QueuedBy(trace)

\* the closure has expanded a type with a field that is a list of input objects
C3_Witness ==
    /\ pc = "renderDepTypes.loop"
    /\ \E i \in InputRefs : trace[i].type[1].kind = "ListType"
    /\ \E i \in InputRefs : trace[i].type[1].kind = "NamedType"

(***************************************************************************)
(* C4: between calls the builder holds no render context, whether the last  *)
(* render returned or threw; a renderOp in flight holds the variables of    *)
(* its own operation only, and the deps it returns are names its own        *)
(* variable definitions refer to.                                           *)
(***************************************************************************)
C4_NoStaleContext ==
    /\ pc \in {"idle", "returned"} => context = <<>>
    /\ pc \in {"renderOp.result", "renderOp.variables"} =>
          /\ context # <<>>
          /\ context[1].variables = VariablesOf(frame.op[1])
          /\ pc = "renderOp.result" => context[1].inputTypesToRender = <<>>
    /\ pc = "returned" /\ result.call = "renderOp" /\ result.status = "returned" =>
          \A k \in 1..Len(result.deps) :
              \E j \in 1..Len(result.op[1].variableDefinitions) :
                  BaseName(result.op[1].variableDefinitions[j].type) = result.deps[k]

\* a renderOp threw after it had queued a name
C4_Witness ==
    /\ pc = "returned" /\ result.call = "renderOp" /\ result.status = "threw"
    /\ \E i \in InputRefs : trace[i].push # <<>>
    /\ context = <<>>

(***************************************************************************)
(* C5 as stated: the expression of a NonNull reference contains no null     *)
(* union at all, and the expression of a nullable reference contains        *)
(* exactly one.                                                             *)
(***************************************************************************)
C5_NullUnionNowhereElse ==
    \A i \in Resolved :
        LET e == trace[i]
        IN  IF Nullable(e.type[1])
            THEN Count(e.out, {" | null"}) = 1 /\ e.out[Len(e.out)] = " | null"
            ELSE Count(e.out, {" | null"}) = 0

(***************************************************************************)
(* C5 amended: the expression of a nullable reference ends with one null    *)
(* union and that is the only one outside every bracket; the expression of  *)
(* a NonNull reference has none outside every bracket.  List elements and   *)
(* record fields inside the brackets carry their own.                       *)
(***************************************************************************)
C5_OneOutermostNullUnion ==
    \A i \in Resolved :
        LET e == trace[i]
        IN  IF Nullable(e.type[1])
            THEN TopLevelNulls(e.out) = 1 /\ e.out[Len(e.out)] = " | null"
            ELSE TopLevelNulls(e.out) = 0

\* a NonNull reference whose expression has a null union inside its brackets
C5_Witness ==
    \E i \in Resolved :
        /\ ~Nullable(trace[i].type[1])
        /\ Count(trace[i].out, {" | null"}) > 0
        /\ TopLevelNulls(trace[i].out) = 0

\* the resolutions of a list reference
ListRefs == {i \in Resolved : UnwrapNonNullType(trace[i].type[1]).kind = "ListType"}

(***************************************************************************)
(* C6: the expression of a list reference is Array<E>, E being the          *)
(* expression of the element reference, followed by a null union iff the    *)
(* list reference is not NonNull; E ends with a null union iff the element  *)
(* reference is not NonNull.                                                *)
(***************************************************************************)
C6_ListAndNullCompose ==
    \A i \in ListRefs :
        LET t == trace[i].type[1]
            elem == UnwrapNonNullType(t).type
            out == trace[i].out
            body == IF Nullable(t) THEN SubSeq(out, 1, Len(out) - 1) ELSE out
        IN  /\ (out[Len(out)] = " | null") <=> Nullable(t)
            /\ i > 1 /\ trace[i - 1].type = <<elem>>
            /\ body = <<"Array<">> \o trace[i - 1].out \o <<">">>
            /\ (body[Len(body) - 1] = " | null") <=> Nullable(elem)

\* a nullable list of NonNull lists of nullable elements
C6_Witness ==
    \E i \in ListRefs :
        LET t == trace[i].type[1]
        IN  /\ t.kind = "ListType" /\ t.type.kind = "NonNullType"
            /\ t.type.type.kind = "ListType" /\ t.type.type.type.kind = "NamedType"

\* the names of the arguments supplied to a checked field
Supplied(e) == {e.args[k].name : k \in 1..Len(e.args)}
\* the parameters of a checked field that are NonNull, without default and not supplied
Unsupplied(e) ==
    LET at == SelectSeq([j \in 1..Len(e.req) |-> j],
                        LAMBDA j : /\ e.req[j].type.kind = "NonNullType"
                                   /\ e.req[j].defaultValue = <<>>
                                   /\ e.req[j].name \notin Supplied(e))
    IN  [k \in 1..Len(at) |-> e.req[at[k]].name]
\* every supplied argument is a literal for a declared parameter that is no list
PlainArguments(e) ==
    \A k \in 1..Len(e.args) :
        /\ e.args[k].value.kind = "IntValue"
        /\ \E j \in 1..Len(e.req) :
              /\ e.req[j].name = e.args[k].name
              /\ UnwrapNonNullType(e.req[j].type).kind # "ListType"

(***************************************************************************)
(* C7: when the supplied arguments of a field have been consumed, the       *)
(* check throws MissingArguments naming exactly the NonNull parameters      *)
(* without default that were not supplied, if there is one and              *)
(* allowMissingArguments is false; otherwise it succeeds.                   *)
(***************************************************************************)
C7_MissingArguments ==
    \A i \in Entries("args") :
        LET e == trace[i]
            fails == Unsupplied(e) # <<>> /\ ~options.allowMissingArguments
            missing == <<[kind |-> "MissingArguments", detail |-> Unsupplied(e)]>>
        IN  /\ PlainArguments(e) => e.err = IF fails THEN missing ELSE <<>>
            /\ e.err = <<>> => ~fails
            /\ e.err # <<>> /\ e.err[1].kind = "MissingArguments" => fails /\ e.err = missing

\* getMany without arguments: ids is reported, extra has a default and is not
C7_Witness ==
    \E i \in Entries("args") :
        /\ trace[i].err = <<[kind |-> "MissingArguments", detail |-> <<"ids">>]>>
        /\ \E j \in 1..Len(trace[i].req) :
              /\ trace[i].req[j].type.kind = "NonNullType"
              /\ trace[i].req[j].defaultValue # <<>>

\* the supplied arguments that name no declared parameter
Undeclared(e) ==
    {k \in 1..Len(e.args) : \A j \in 1..Len(e.req) : e.req[j].name # e.args[k].name}

(***************************************************************************)
(* C8 as stated: an argument that names no declared parameter is ignored    *)
(* when allowAdditionalArguments is true, the check going on as if it had   *)
(* not been supplied; when it is false the check throws UnexpectedArgument, *)
(* unless an argument before it has already failed the check.               *)
(***************************************************************************)
C8_AdditionalArguments ==
    \A i \in Entries("args") :
        LET e == trace[i]
            declaredOnly == SelectSeq([k \in 1..Len(e.args) |-> k],
                                      LAMBDA k : k \notin Undeclared(e))
            others == [k \in 1..Len(declaredOnly) |-> e.args[declaredOnly[k]]]
        IN  Undeclared(e) # {} =>
                IF options.allowAdditionalArguments
                THEN e.err = CheckFieldArguments(<<e.req>>, others, e.path).err
                ELSE /\ e.err # <<>>
                     /\ e.err[1].kind \in {"UnexpectedArgument", "UndeclaredVariable",
                                           "ArgumentTypeMismatch"}
                     /\ 1 \in Undeclared(e) => e.err[1].kind = "UnexpectedArgument"

(***************************************************************************)
(* C9: a plain field selected on a union is resolved on every member; when  *)
(* the members' expressions are all equal the field's line carries that     *)
(* expression; when two differ the render throws InconsistentUnionShape if  *)
(* allowUnknownTypes is false, and else the line carries the marker         *)
(* `/* inconsistent subtypes from union */ any`.                            *)
(***************************************************************************)
C9_UnionMembersAgree ==
    \A i \in Entries("union") :
        LET e == trace[i]
            equal == \A a, b \in 1..Len(e.members) : e.members[a] = e.members[b]
        IN  e.resolved /\ e.members # <<>> =>
                /\ Len(e.members) = Len(allTypes[e.target].types)
                /\ IF equal
                   THEN e.err = <<>> /\ e.out = <<e.sel.name, ": ">> \o e.members[1] \o <<";">>
                   ELSE IF ~options.allowUnknownTypes
                   THEN e.err = <<[kind |-> "InconsistentUnionShape", detail |-> <<e.sel.name>>]>>
                   ELSE /\ e.err = <<>>
                        /\ e.out = <<e.sel.name, ": ",
                                     "/* inconsistent subtypes from union */ any", ";">>

\* two members of a union resolve a field differently and the render throws
C9_Witness ==
    \E i \in Entries("union") :
        /\ trace[i].resolved /\ Len(trace[i].members) = 2
        /\ trace[i].members[1] # trace[i].members[2]
        /\ trace[i].err # <<>>

(***************************************************************************)
(* C10 as stated: a field whose named type is an interface, selected with   *)
(* a selection set, is rendered as an object of the interface's fields      *)
(* would be: the record of the selected fields, with the fragments' shapes. *)
(***************************************************************************)
C10_InterfaceLikeObject ==
    \A i \in Entries("type") :
        LET e == trace[i]
            t == UnwrapNonNullType(e.type[1])
            def == allTypes[t.name]
            asObject == RenderMany(ObjectType(def.name, def.fields),
                                   e.sel[1].selectionSet[1], e.path)
        IN  /\ e.type # <<>> /\ HasSet(e.sel)
            /\ t.kind = "NamedType" /\ KindOf(t.name) = "InterfaceTypeDefinition"
            => /\ e.err = asObject.err
               /\ e.out = IF Failed(asObject) THEN <<>>
                          ELSE Render(Nullable(e.type[1]), asObject.out)

(***************************************************************************)
(* What the later properties read of a call of renderMany.                 *)
(***************************************************************************)
\* the fields a type definition declares under a name
DeclaredAs(type, n) == {type.fields[i] : i \in {j \in 1..Len(type.fields) : type.fields[j].name = n}}

\* a call of renderMany on an Object type that returned, every selection a
\* plain field the type declares
PlainObjectCall(m) ==
    /\ trace[m].type.kind = "ObjectTypeDefinition"
    /\ trace[m].err = <<>>
    /\ \A k \in 1..Len(trace[m].set) :
          /\ trace[m].set[k].kind = "Field"
          /\ DeclaredAs(trace[m].type, trace[m].set[k].name) # {}

\* the calls of renderSingleType a call of renderMany made for its k-th
\* selection: the field's declared type against the selection itself
ResolvedFor(m, k) ==
    {i \in Entries("type") :
        /\ i < m
        /\ trace[i].err = <<>>
        /\ trace[i].sel = <<trace[m].set[k]>>
        /\ trace[i].path = trace[m].path \o <<".", trace[m].set[k].name>>
        /\ \E f \in DeclaredAs(trace[m].type, trace[m].set[k].name) : trace[i].type = <<f.type>>}

\* the names of the entries of a record text, nested records left aside
EntryNames(out) ==
    LET lines == SplitLines(out)
        at == SelectSeq([i \in 1..Len(lines) |-> i],
                        LAMBDA i : /\ Len(lines[i]) >= 2
                                   /\ lines[i][1] = INDENT
                                   /\ lines[i][2] \notin {INDENT, "//", "}"})
    IN  [k \in 1..Len(at) |-> lines[at[k]][2]]

\* the record a call of renderMany is to return for the entries given
RecordOf(type, entries) ==
    Wrap(IF type.name \in {"Query", "Mutation", "Subscription"} THEN entries
         ELSE << <<"//", " ", type.name>> >> \o entries)

(***************************************************************************)
(* C11: a call of renderMany on an Object type whose selections are all     *)
(* plain fields the type declares, with valid arguments, returns a record   *)
(* with exactly one entry per selected field, in selection order, each      *)
(* typed by what resolving the field's declared type against the           *)
(* selection's own nested selection gave; a field that is declared but not  *)
(* selected has no entry.                                                   *)
(***************************************************************************)
C11_SelectionProjection ==
    \A m \in Entries("many") : PlainObjectCall(m) =>
        /\ \A k \in 1..Len(trace[m].set) : ResolvedFor(m, k) # {}
        /\ trace[m].out =
              RecordOf(trace[m].type,
                       [k \in 1..Len(trace[m].set) |->
                           <<trace[m].set[k].name, ": ">>
                           \o trace[CHOOSE i \in ResolvedFor(m, k) : TRUE].out
                           \o <<";">>])
        /\ EntryNames(trace[m].out) = [k \in 1..Len(trace[m].set) |-> trace[m].set[k].name]

\* the README's example: of the four fields of Foo only b is selected
C11_Witness ==
    \E m \in Entries("many") :
        /\ PlainObjectCall(m)
        /\ trace[m].type = FooDef
        /\ trace[m].set = <<Leaf("b")>>
        /\ trace[m].out = <<"{", NL, INDENT, "//", " ", "Foo", NL,
                            INDENT, "b", ": ", "string", " | null", ";", NL, "}">>

(***************************************************************************)
(* What the properties read of a registry call.                            *)
(***************************************************************************)
\* a step that is a whole call of addModelType or addAllDocument
RegistryCall == pc = "idle" /\ pc' = "returned" /\ result'.call \in {"addModelType", "addAllDocument"}

\* a step in which runAllBuilder hands its model files to a builder of its own
ModelFilesCall == run.phase = "none" /\ run'.phase # "none"

\* the definitions the step handed to the registry, in the order handed
DefsGiven == IF ModelFilesCall THEN Flatten(run'.args[1].model) ELSE result'.defs

\* what the step threw, if it threw
Thrown ==
    IF ModelFilesCall THEN run'.err
    ELSE IF result'.status = "threw" THEN result'.err ELSE <<>>

\* the first definition of a sequence under a name
FirstNamed(defs, n) ==
    defs[CHOOSE i \in 1..Len(defs) :
            defs[i].name = n /\ \A j \in 1..(i - 1) : defs[j].name # n]

\* a definition of the call whose name is taken by the time it is reached
Repeats(defs) ==
    \E i \in 1..Len(defs) :
        \/ defs[i].name \in DOMAIN allTypes
        \/ \E j \in 1..(i - 1) : defs[j].name = defs[i].name

(***************************************************************************)
(* C12: no step replaces or removes a registry entry; a call of             *)
(* addModelType or addAllDocument (runAllBuilder's over its model files     *)
(* too) that reaches a definition whose name is already present throws      *)
(* DuplicateType, and whatever a call registers is                          *)
(* the first definition it was given under that name: so every registered   *)
(* name maps to the first definition registered under it.                   *)
(***************************************************************************)
C12_RegistryUnique ==
    [][ /\ \A n \in DOMAIN allTypes : n \in DOMAIN allTypes' /\ allTypes'[n] = allTypes[n]
        /\ DOMAIN allTypes' # DOMAIN allTypes => RegistryCall \/ ModelFilesCall
        /\ RegistryCall \/ ModelFilesCall =>
              /\ Repeats(DefsGiven) =>
                    /\ Thrown # <<>>
                    /\ Thrown[1].kind = "DuplicateType"
              /\ \A n \in DOMAIN allTypes' \ DOMAIN allTypes :
                    /\ \E i \in 1..Len(DefsGiven) : DefsGiven[i].name = n
                    /\ allTypes'[n] = FirstNamed(DefsGiven, n) ]_vars

\* scalar Foo was handed to addModelType after the demo schema's type Foo:
\* the call threw and Foo is still the object type
C12_Witness ==
    /\ pc = "returned"
    /\ result.call = "addModelType"
    /\ result.defs = <<FooAgainDef>>
    /\ result.status = "threw"
    /\ result.err[1].kind = "DuplicateType"
    /\ "Foo" \in DOMAIN allTypes
    /\ allTypes["Foo"] = FooDef

(***************************************************************************)
(* What the properties read of a run of runAllBuilder.                     *)
(***************************************************************************)
\* the operations of the query files, in document order
OperationsOf(args) ==
    SelectSeq(Flatten(args.query), LAMBDA def : def.kind = "OperationDefinition")

\* how often a name occurs in a sequence
Occurrences(q, n) == Cardinality({i \in 1..Len(q) : q[i] = n})

\* the pending names of the calls of renderOp of a run, one after another
PendingNames(calls, n) == Flatten([i \in 1..n |-> calls[i].deps])

(***************************************************************************)
(* C13: runAllBuilder calls renderOp for the operations of the query files  *)
(* in document order and then renderDepTypes, once, after the last          *)
(* operation and with the concatenation of the pending names the            *)
(* operations returned; what it returns is the operations' artifacts in     *)
(* that order followed by the one closure block, which declares every       *)
(* pending name exactly once, however often and by however many operations  *)
(* it was referenced.                                                       *)
(***************************************************************************)
C13_OneClosureAfterAllOperations ==
    run.phase # "none" =>
        LET ops == OperationsOf(run.args[1])
            calls == run.calls
            n == Len(ops)
        IN  /\ Len(calls) <= n + 1
            /\ \A i \in 1..Len(calls) :
                  /\ i <= n => calls[i].call = "renderOp" /\ calls[i].op = <<ops[i]>>
                  /\ i = n + 1 => calls[i].call = "renderDepTypes"
                  /\ i < Len(calls) => calls[i].status = "returned"
            /\ run.phase = "deps" =>
                  /\ Len(calls) = n
                  /\ pc # "finished" => frame.names = PendingNames(calls, n)
            /\ run.phase = "returned" =>
                  /\ Len(calls) = n + 1
                  /\ calls[n + 1].names = PendingNames(calls, n)
                  /\ run.out = Flatten([i \in 1..(n + 1) |-> calls[i].code])
                  /\ \A i \in 1..Len(calls[n + 1].names) :
                        Occurrences(DeclaredNames(calls[n + 1].code), calls[n + 1].names[i]) = 1

\* three operations in two files, two of them with a variable of type
\* ComplexInput: one closure block after the third, ComplexInput declared once
C13_Witness ==
    /\ run.phase = "returned"
    /\ Len(run.calls) = 4
    /\ Occurrences(run.calls[4].names, "ComplexInput") = 2
    /\ Occurrences(DeclaredNames(run.out), "ComplexInput") = 1
    /\ run.calls[1].deps # <<>>
    /\ run.calls[3].deps # <<>>

(***************************************************************************)
(* What the properties read of the markers of a text.                      *)
(***************************************************************************)
\* the pieces of text that open an inline marker comment
MarkerOpenings ==
    {"/* can't find path=", "/* invalid shape, should be object type=",
     "/* invalid shape, should be scalar=", "/* can't find scalar=",
     "/* unsupported kind=", "/* can't find scalar type=",
     "/* inconsistent subtypes from union */ any"}

HasMarker(out) == \E k \in 1..Len(out) : out[k] \in MarkerOpenings

(***************************************************************************)
(* C14 as stated: whatever a tolerance option lets a render continue past   *)
(* leaves an inline marker in the emitted text: the record rendered for a   *)
(* selection whose field lacks required arguments, the expression of a      *)
(* field the target does not declare, and the expression of a type that is  *)
(* not registered, all carry a marker comment when they are rendered at     *)
(* all.                                                                     *)
(***************************************************************************)
C14_ToleranceLeavesMarker ==
    /\ \A i \in Entries("args") :
          trace[i].err = <<>> /\ Unsupplied(trace[i]) # <<>> =>
              \A m \in Entries("many") :
                  m > i /\ trace[m].path = trace[i].path /\ trace[m].err = <<>> =>
                      HasMarker(trace[m].out)
    /\ \A i \in Entries("type") :
          /\ trace[i].err = <<>>
          /\ \/ trace[i].type = <<>> /\ trace[i].sel[1].name # TYPENAME_FIELD_NAME
             \/ /\ trace[i].type # <<>>
                /\ BaseName(trace[i].type[1]) \notin DOMAIN allTypes \cup DOMAIN scalars
          => HasMarker(trace[i].out)

(***************************************************************************)
(* What the properties read of the entries of a record.                    *)
(***************************************************************************)
\* the lines of a record text that open its entries, nested records left aside
EntryLines(out) ==
    SelectSeq(SplitLines(out), LAMBDA line : /\ Len(line) >= 2
                                             /\ line[1] = INDENT
                                             /\ line[2] \notin {INDENT, "//", "}"})

\* a call of renderMany on an Object type, every selection a plain field
FieldsOnlyCall(m) ==
    /\ trace[m].type.kind = "ObjectTypeDefinition"
    /\ \A k \in 1..Len(trace[m].set) : trace[m].set[k].kind = "Field"

\* the selections of the typename pseudo-field, without arguments, of a call
TypenameSelections(m) ==
    {k \in 1..Len(trace[m].set) :
        trace[m].set[k].name = TYPENAME_FIELD_NAME /\ trace[m].set[k].arguments = <<>>}

(***************************************************************************)
(* C15: `__typename` selected on an Object target that declares no field of *)
(* that name is rendered as the target's own name, a string literal, under  *)
(* fixedTypenameField, and as string without it; the selection never fails  *)
(* with MissingField, whatever allowMissingFields is. Where the target      *)
(* declares a field `__typename`, the entry is typed by the declared        *)
(* field's type.                                                            *)
(***************************************************************************)
C15_TypenamePseudoField ==
    /\ \A i \in Entries("type") :
          trace[i].sel # <<>> /\ trace[i].sel[1].name = TYPENAME_FIELD_NAME /\ trace[i].type = <<>> =>
              trace[i].err = <<>>
    /\ \A m \in Entries("many") : FieldsOnlyCall(m) =>
          \A k \in TypenameSelections(m) :
              LET declared == DeclaredAs(trace[m].type, TYPENAME_FIELD_NAME)
              IN  /\ trace[m].err # <<>> =>
                        \/ trace[m].err[1].kind # "MissingField"
                        \/ trace[m].err[1].detail # trace[m].path \o <<".", TYPENAME_FIELD_NAME>>
                  /\ trace[m].err = <<>> =>
                        /\ Len(EntryLines(trace[m].out)) = Len(trace[m].set)
                        /\ EntryLines(trace[m].out)[k] =
                              <<INDENT, TYPENAME_FIELD_NAME, ": ">>
                              \o (IF declared # {}
                                  THEN trace[CHOOSE i \in ResolvedFor(m, k) : TRUE].out
                                  ELSE IF options.fixedTypenameField
                                  THEN <<"\"", trace[m].type.name, "\"">>
                                  ELSE <<"string">>)
                              \o <<";">>

\* __typename on Foo, which declares no such field, with the default options
\* and strict about missing fields
C15_Witness ==
    /\ options.fixedTypenameField
    /\ ~options.allowMissingFields
    /\ \E m \in Entries("many") :
          /\ FieldsOnlyCall(m)
          /\ trace[m].type = FooDef
          /\ trace[m].err = <<>>
          /\ \E k \in TypenameSelections(m) :
                EntryLines(trace[m].out)[k] = <<INDENT, "__typename", ": ", "\"", "Foo", "\"", ";">>

(***************************************************************************)
(* What the properties read of a variables type or an input declaration.   *)
(***************************************************************************)
\* how the line of an input (a variable or an input-object field) is to open
InputOpening(item) ==
    <<INDENT, item.name>>
    \o (IF item.type.kind # "NonNullType" \/ item.defaultValue # <<>> THEN <<"?">> ELSE <<>>)
    \o <<": ">>

\* a text declares the inputs given: one line each, in their order, opened as
\* their optionality requires
DeclaresInputs(text, items) ==
    LET lines == EntryLines(text)
    IN  /\ Len(lines) = Len(items)
        /\ \A k \in 1..Len(items) :
              /\ Len(lines[k]) > Len(InputOpening(items[k]))
              /\ SubSeq(lines[k], 1, Len(InputOpening(items[k]))) = InputOpening(items[k])

(***************************************************************************)
(* C16: the variables type renderOp returns has exactly one field per       *)
(* declared variable, in declaration order, and the field is optional       *)
(* (`name?:`) exactly when the variable's type is not NonNull-wrapped or    *)
(* the variable has a default value; every declaration of the closure does  *)
(* the same for the fields of its input object type.                        *)
(***************************************************************************)
C16_InputOptionality ==
    /\ pc = "returned" /\ result.call = "renderOp" /\ result.status = "returned" =>
          DeclaresInputs(frame.parts[Len(frame.parts)], result.op[1].variableDefinitions)
    /\ pc = "renderDepTypes.loop" \/ ClosureReturned =>
          \A k \in 1..Len(frame.parts) :
              frame.parts[k] # <<>> =>
                  DeclaresInputs(frame.parts[k], allTypes[frame.parts[k][3]].fields)

\* a NonNull variable with a default value is optional, one without is not,
\* a nullable one is
C16_Witness ==
    /\ pc = "returned" /\ result.call = "renderOp" /\ result.status = "returned"
    /\ \E i, j, k \in 1..Len(result.op[1].variableDefinitions) :
          LET v == result.op[1].variableDefinitions
              lines == EntryLines(frame.parts[Len(frame.parts)])
          IN  /\ v[i].type.kind = "NonNullType" /\ v[i].defaultValue # <<>>
              /\ lines[i][3] = "?"
              /\ v[j].type.kind = "NonNullType" /\ v[j].defaultValue = <<>>
              /\ lines[j][3] = ": "
              /\ v[k].type.kind # "NonNullType" /\ v[k].defaultValue = <<>>
              /\ lines[k][3] = "?"

(***************************************************************************)
(* What the properties read of the variables of a checked field.           *)
(***************************************************************************)
\* the names of the variables the operation being rendered declares
DeclaredVariables ==
    {frame.op[1].variableDefinitions[k].name : k \in 1..Len(frame.op[1].variableDefinitions)}

\* every supplied argument is a variable reference for a declared parameter
VariableArguments(e) ==
    /\ e.args # <<>>
    /\ Undeclared(e) = {}
    /\ \A k \in 1..Len(e.args) : e.args[k].value.kind = "Variable"

(***************************************************************************)
(* C17 as stated: where the supplied arguments of a field are variable      *)
(* references, the check throws UndeclaredVariable if and only if one of    *)
(* the variables is not declared by the operation being rendered; declared  *)
(* variables pass the compatibility check whatever the parameter requires,  *)
(* a scalar or a list, so that the check can then fail for missing          *)
(* arguments only.                                                          *)
(***************************************************************************)
C17_VariableArguments ==
    \A i \in Entries("args") :
        frame.op # <<>> /\ VariableArguments(trace[i]) =>
            LET e == trace[i]
                unknown == {k \in 1..Len(e.args) : e.args[k].value.name \notin DeclaredVariables}
            IN  /\ unknown # {} <=> e.err # <<>> /\ e.err[1].kind = "UndeclaredVariable"
                /\ unknown = {} => e.err = <<>> \/ e.err[1].kind = "MissingArguments"

(***************************************************************************)
(* What the properties read of the inline fragments of a call.             *)
(***************************************************************************)
SelectsTypename(selections) == \E j \in 1..Len(selections) : IsTypename(selections[j])

\* the inline fragments of a call of renderMany whose type condition names an
\* Object or a Union, which renderMany renders in its turn
FragmentsOf(m) ==
    {k \in 1..Len(trace[m].set) :
        /\ trace[m].set[k].kind = "InlineFragment"
        /\ KindOf(trace[m].set[k].typeCondition) \in {"ObjectTypeDefinition", "UnionTypeDefinition"}}

\* the calls of renderMany a call made for its k-th selection, an inline fragment
BranchesOf(m, k) ==
    {i \in Entries("many") :
        /\ i < m
        /\ trace[i].type.name = trace[m].set[k].typeCondition
        /\ trace[i].path = trace[m].path \o <<".", trace[m].set[k].typeCondition>>}

\* the selections an inline fragment is to be rendered with
Propagated(outer, inner) ==
    IF options.fixedTypenameField /\ SelectsTypename(outer) /\ ~SelectsTypename(inner)
    THEN <<Field(TYPENAME_FIELD_NAME, <<>>, <<>>)>> \o inner
    ELSE inner

(***************************************************************************)
(* C18: under fixedTypenameField, an inline fragment of a selection set     *)
(* that selects `__typename` is rendered with `__typename` as its first     *)
(* selection if it does not select it itself and as it is if it does, so    *)
(* that the branch rendered for it has exactly one `__typename` entry; the  *)
(* fragments of a set that does not select `__typename` are rendered as     *)
(* they are. The selections the caller passed are the same after the call:  *)
(* the operation still holds the fragments as they were written.            *)
(***************************************************************************)
C18_TypenamePropagation ==
    /\ \A m \in Entries("many") : trace[m].err = <<>> =>
          \A k \in FragmentsOf(m) :
              LET outer == trace[m].set
                  inner == outer[k].selectionSet[1]
              IN  \E i \in BranchesOf(m, k) :
                      /\ trace[i].set = Propagated(outer, inner)
                      /\ trace[i].err = <<>>
                      /\ /\ options.fixedTypenameField
                         /\ SelectsTypename(outer)
                         /\ FieldsOnlyCall(i)
                         /\ Cardinality({j \in 1..Len(inner) : IsTypename(inner[j])}) <= 1
                         => Cardinality({j \in 1..Len(EntryLines(trace[i].out)) :
                                            EntryLines(trace[i].out)[j][2] = TYPENAME_FIELD_NAME}) = 1
    /\ pc \in {"renderOp.variables", "returned"} /\ Entries("many") # {} /\ frame.op # <<>> =>
          \E m \in Entries("many") :
              /\ trace[m].set = frame.op[1].selectionSet
              /\ trace[m].path = frame.op[1].name

\* the README's union: __typename beside a fragment that does not select it
\* and one that does
C18_Witness ==
    \E m \in Entries("many") : \E a, b \in FragmentsOf(m) :
        /\ options.fixedTypenameField
        /\ trace[m].err = <<>>
        /\ SelectsTypename(trace[m].set)
        /\ ~SelectsTypename(trace[m].set[a].selectionSet[1])
        /\ SelectsTypename(trace[m].set[b].selectionSet[1])
        /\ \E i \in BranchesOf(m, a) :
              /\ trace[i].set = <<Leaf(TYPENAME_FIELD_NAME)>> \o trace[m].set[a].selectionSet[1]
              /\ EntryLines(trace[i].out)[1] =
                    <<INDENT, TYPENAME_FIELD_NAME, ": ", "\"", trace[m].set[a].typeCondition, "\"", ";">>
        /\ \E i \in BranchesOf(m, b) : trace[i].set = trace[m].set[b].selectionSet[1]

(***************************************************************************)
(* What the properties read of the resolution of a named type.             *)
(***************************************************************************)
\* the calls of renderSingleType for a reference to a named type, list
\* wrappers resolved, whose name the registry does not hold
Unregistered ==
    {i \in Entries("type") :
        /\ trace[i].type # <<>>
        /\ UnwrapNonNullType(trace[i].type[1]).kind = "NamedType"
        /\ BaseName(trace[i].type[1]) \notin DOMAIN allTypes}

\* the selection a reference is resolved against has a nested selection set
Nested(i) == HasSet(trace[i].sel)

(***************************************************************************)
(* C19 as stated: a named type that is not in the registry resolves (1) to  *)
(* the scalar map's expression for the name, if there is one and nothing is *)
(* selected under it; (2) otherwise to an UnknownType failure if            *)
(* allowUnknownTypes is false; (3) otherwise to an `unknown` marker naming  *)
(* the type if nothing is selected under it, and if something is, to what   *)
(* an Object of that name without fields gives: a MissingField failure for  *)
(* a selected field other than `__typename` unless allowMissingFields.      *)
(***************************************************************************)
C19_UnknownNamedType ==
    \A i \in Unregistered :
        LET e == trace[i]
            n == BaseName(e.type[1])
        IN  IF ~Nested(i) /\ n \in DOMAIN scalars
            THEN e.err = <<>> /\ e.out = Render(Nullable(e.type[1]), <<scalars[n]>>)
            ELSE IF ~options.allowUnknownTypes
            THEN e.err = <<[kind |-> "UnknownType", detail |-> <<n>>]>>
            ELSE IF ~Nested(i)
            THEN /\ e.err = <<>>
                 /\ e.out = Render(Nullable(e.type[1]),
                                   <<"/* can't find scalar type=", "\"", n, "\"", " */ unknown">>)
            ELSE /\ \E m \in Entries("many") :
                        /\ m < i
                        /\ trace[m].type = ObjectType(n, <<>>)
                        /\ trace[m].path = e.path
                        /\ trace[m].set = e.sel[1].selectionSet[1]
                        /\ trace[m].err = e.err
                 /\ LET first == e.sel[1].selectionSet[1][1]
                    IN  /\ first.kind = "Field"
                        /\ first.name # TYPENAME_FIELD_NAME
                        /\ first.arguments = <<>>
                        /\ ~options.allowMissingFields
                        => e.err = <<[kind |-> "MissingField",
                                      detail |-> e.path \o <<".", first.name>>]>>

(***************************************************************************)
(* What the properties read of a render call.                              *)
(***************************************************************************)
\* the positions inside renderOp and renderDepTypes
RenderPositions == {"renderOp.result", "renderOp.variables", "renderDepTypes.loop"}

\* a step of renderOp or renderDepTypes, the one that returns or throws included
RenderStep ==
    \/ pc \in RenderPositions
    \/ pc' \in RenderPositions
    \/ pc # "returned" /\ pc' = "returned" /\ result'.call \in {"renderOp", "renderDepTypes"}

\* the step that ends a render, by return or by throw
RenderEnds == RenderStep /\ pc' = "returned"

\* the step that takes a render to its first position
RenderBegins == pc \notin RenderPositions /\ pc' \in RenderPositions

\* two calls of one run that were given the same thing to render
SameRender(a, b) == a.call = b.call /\ a.op = b.op /\ a.names = b.names

(***************************************************************************)
(* C20: no step of renderOp or renderDepTypes, the returning or throwing   *)
(* one included, changes the registry, the scalar map or the options; a    *)
(* render begins on a builder that holds no context and ends leaving none, *)
(* so nothing but registry, scalar map and options passes from one render  *)
(* to the next; and two renders of the same operation on one builder       *)
(* return the same text and the same deps whatever was rendered in         *)
(* between.                                                                *)
(***************************************************************************)
C20_RenderFrame ==
    [][ /\ RenderStep => UNCHANGED <<allTypes, scalars, options>>
        /\ RenderBegins =>
              /\ context = <<>>
              /\ trace' = <<>>
              /\ pc' = "renderOp.result" =>
                    context' = NewContext(VariablesOf(frame'.op[1]), <<>>)
              /\ pc' = "renderDepTypes.loop" =>
                    context' = NewContext(<<>>, frame'.names)
        /\ RenderEnds => context' = <<>>
        /\ \A i, j \in 1..Len(run'.calls) :
              SameRender(run'.calls[i], run'.calls[j]) =>
                  /\ run'.calls[i].status = run'.calls[j].status
                  /\ run'.calls[i].code = run'.calls[j].code
                  /\ run'.calls[i].deps = run'.calls[j].deps ]_vars

\* one run rendered GetFoo with its input variables, then another
\* operation, then the first again, and got the same text and deps
C20_Witness ==
    /\ Len(run.calls) >= 3
    /\ run.calls[1].op = <<GetComplexOp>>
    /\ run.calls[2].op = <<GetFooOp>>
    /\ run.calls[3].op = <<GetComplexOp>>
    /\ run.calls[3].status = "returned"
    /\ run.calls[3].deps # <<>>
    /\ run.calls[3].code = run.calls[1].code
    /\ run.calls[3].deps = run.calls[1].deps

(***************************************************************************)
(* What the properties read of the input types of the registry.            *)
(***************************************************************************)
\* the names registered as input objects
InputObjects == {n \in DOMAIN allTypes : allTypes[n].kind = "InputObjectTypeDefinition"}

\* the input objects the fields of input object n refer to, wrappers left aside
FieldReferences(n) ==
    {BaseName(allTypes[n].fields[i].type) : i \in 1..Len(allTypes[n].fields)} \cap InputObjects

RECURSIVE Reachable(_)
\* the least set that contains S and the field references of its input objects
Reachable(S) ==
    LET more == S \cup UNION {FieldReferences(n) : n \in S \cap InputObjects}
    IN  IF more = S THEN S ELSE Reachable(more)

\* a sequence's elements
Range(q) == {q[i] : i \in 1..Len(q)}

(***************************************************************************)
(* C21: a renderDepTypes call that returns gives as deps exactly the input *)
(* objects reachable from the names it was handed through fields typed by  *)
(* registered input objects, List and NonNull wrappers left aside; the     *)
(* text declares these names and no other, so every input object a field   *)
(* of a declared type refers to is declared too.                           *)
(***************************************************************************)
C21_ClosureIsReachableSet ==
    ClosureReturned =>
        /\ Range(result.deps) = Reachable(Range(result.names))
        /\ Range(DeclaredNames(result.code)) = Reachable(Range(result.names))
        /\ \A n \in Range(DeclaredNames(result.code)) :
              /\ n \in InputObjects
              /\ FieldReferences(n) \subseteq Range(DeclaredNames(result.code))

\* a closure over Pair alone declared Point as well, which Pair refers to
\* through a NonNull list, and Pair, which refers to itself, once
C21_Witness ==
    /\ ClosureReturned
    /\ result.names = <<"Pair">>
    /\ result.deps = <<"Pair", "Point">>
    /\ DeclaredNames(result.code) = <<"Pair", "Point">>

(***************************************************************************)
(* What the properties read of the pending queue.                          *)
(***************************************************************************)
\* the names the resolutions of the last step appended to the queue
Appended == UNION {Range(trace[i].push) : i \in Entries("type")}

\* the names on the queue, or that have been on it, that the caller did not hand over
AppendedSoFar ==
    IF pc \in {"renderOp.result", "renderOp.variables"}
    THEN Range(context[1].inputTypesToRender)
    ELSE IF pc = "renderDepTypes.loop"
    THEN Range(SubSeq(frame.enqueued, Len(frame.names) + 1, Len(frame.enqueued)))
    ELSE {}

\* the call that just ended is a renderDepTypes that threw for a name of its queue
QueueNameRejected ==
    /\ pc = "returned"
    /\ result.call = "renderDepTypes"
    /\ result.status = "threw"
    /\ result.err[1].kind \in {"UnknownInputType", "WrongKind"}

(***************************************************************************)
(* C22: every name a resolution appends to the pending queue, in renderOp  *)
(* or in the closure, is registered as an input object; the deps a         *)
(* renderOp returns are such names; the renderDepTypes that runAllBuilder  *)
(* applies to the deps of its successful renderOp calls never throws       *)
(* UnknownInputType or WrongKind; and a renderDepTypes that throws one of  *)
(* the two throws it for a name its caller handed over.                    *)
(***************************************************************************)
C22_QueuedNamesAreInputObjects ==
    /\ Appended \subseteq InputObjects
    /\ AppendedSoFar \subseteq InputObjects
    /\ pc = "returned" /\ result.call = "renderOp" /\ result.status = "returned" =>
          Range(result.deps) \subseteq InputObjects
    /\ run.phase = "deps" => ~QueueNameRejected
    /\ run.phase = "threw" /\ run.calls # <<>>
       /\ run.calls[Len(run.calls)].call = "renderDepTypes" =>
          run.err[1].kind \notin {"UnknownInputType", "WrongKind"}
    /\ QueueNameRejected => result.err[1].detail[1] \in Range(result.names)

\* runAllBuilder applied renderDepTypes to the deps of its operations and the
\* closure declared FooInput, a name only an expansion had queued
C22_Witness ==
    /\ run.phase = "deps"
    /\ ClosureReturned
    /\ result.names # <<>>
    /\ "FooInput" \in Range(result.deps) \ Range(result.names)

====
